---- MODULE Spec2Model ----
(***************************************************************************)
(* Concert venue management: the seat/ticket store (in-memory and          *)
(* Google-Sheets backends), the atomic seat claim, and the route handlers  *)
(* that mutate the store.                                                  *)
(*                                                                         *)
(* Strings are sequences of one-character strings, so that formatting and  *)
(* matching are computed.  Opaque values (null, statuses, dates, booleans  *)
(* written to a sheet) are one- or two-element tuples of longer strings,   *)
(* which no character sequence equals.                                     *)
(*                                                                         *)
(* Scheduling is Node's: code runs until it awaits.  An await of an        *)
(* already settled promise continues from the microtask queue (runq,       *)
(* first in first out); an await of network I/O continues at any later     *)
(* time.  Every in-memory store method is an async function without an     *)
(* await inside, so its promise is settled when the call returns.          *)
(***************************************************************************)
EXTENDS Integers, Sequences, FiniteSets, TLC

VARIABLES
  backend,         \* STORAGE_TYPE: which store createStorage() built
  tickets,         \* MemStorage.tickets: the Map's entries in insertion order
  seats,           \* MemStorage.seats: the Map's entries in insertion order
  operationLocks,  \* MemStorage.operationLocks: seat number -> promise (its call)
  ticketRows,      \* the Tickets sheet: header row, then one row per ticket
  seatRows,        \* the Seats sheet: header row, then one row per seat
  pc,              \* where each call stands
  req,             \* each call's arguments
  loc,             \* each call's local variables
  res,             \* each call's returned value
  runq,            \* the microtask queue: calls whose await continues next
  last,            \* the HTTP response most recently sent by a route handler
  rateLimitStore,  \* routes.ts rateLimitStore: client id -> { count, resetTime }
  clock,           \* Date.now(), in milliseconds since the process started
  rateLimited      \* the requests that reached the rate limiter: time and outcome

vars ==
  <<backend, tickets, seats, operationLocks, ticketRows, seatRows, pc, req, loc, res, runq,
    last, rateLimitStore, clock, rateLimited>>

\* The variables of the rate limiter
limiter == <<rateLimitStore, clock, rateLimited>>

----------------------------------------------------------------------------
(* Bounds of the model *)

MaxRequests == 4   \* requests that reach the rate limiter in one behaviour
MaxTicks == 3      \* times the clock advances in one behaviour
MaxFieldLen == 3   \* characters of a CSV field handed to sanitizeCSVField

MaxProcs == 3      \* claims racing in one behaviour, each with a ticket of its own
MaxCalls == 2      \* calls with arbitrary arguments in one behaviour
MaxTickets == 3    \* tickets the store may come to hold
MaxSeats == 2      \* seats of the modelled venue (one row)
MaxCodes == 2      \* distinct human-facing ticket codes the generator draws from
MaxImportRecords == 2  \* records of one imported file

Procs == 1..MaxProcs

----------------------------------------------------------------------------
(* Values *)

NULL == <<"null">>

Digits == <<"0", "1", "2", "3", "4", "5", "6", "7", "8", "9">>

\* JavaScript truthiness of a nullable string: null, undefined and '' are falsy
Falsy(v) == v = NULL \/ v = <<>>

\* v || d
OrElse(v, d) == IF Falsy(v) THEN d ELSE v

RECURSIVE NumToString(_)
\* Number.prototype.toString() of a non-negative integer
NumToString(n) ==
  IF n < 10 THEN <<Digits[n + 1]>>
  ELSE NumToString(n \div 10) \o <<Digits[(n % 10) + 1]>>

RECURSIVE PadStart(_, _, _)
\* String.prototype.padStart(width, fill) with a one-character fill
PadStart(s, width, fill) ==
  IF Len(s) >= width THEN s ELSE PadStart(<<fill>> \o s, width, fill)

Min(a, b) == IF a <= b THEN a ELSE b

\* String.prototype.substring(0, n)
Substring(s, n) == SubSeq(s, 1, Min(n, Len(s)))

RECURSIVE TrimStart(_)
TrimStart(s) == IF s # <<>> /\ Head(s) = " " THEN TrimStart(Tail(s)) ELSE s

RECURSIVE TrimEnd(_)
TrimEnd(s) ==
  IF s # <<>> /\ s[Len(s)] = " " THEN TrimEnd(SubSeq(s, 1, Len(s) - 1)) ELSE s

\* String.prototype.trim(), the blank being the one whitespace of the model
Trim(s) == TrimEnd(TrimStart(s))

UpperLetters ==
  <<"A", "B", "C", "D", "E", "F", "G", "H", "I", "J", "K", "L", "M",
    "N", "O", "P", "Q", "R", "S", "T", "U", "V", "W", "X", "Y", "Z">>

LowerLetters ==
  <<"a", "b", "c", "d", "e", "f", "g", "h", "i", "j", "k", "l", "m",
    "n", "o", "p", "q", "r", "s", "t", "u", "v", "w", "x", "y", "z">>

\* The position of c in letters, 0 when it is not one of them
LetterIndex(letters, c) ==
  IF \E k \in 1..Len(letters) : letters[k] = c
  THEN CHOOSE k \in 1..Len(letters) : letters[k] = c
  ELSE 0

\* String.prototype.toUpperCase() and toLowerCase()
ToUpperCase(s) ==
  [k \in 1..Len(s) |->
     IF LetterIndex(LowerLetters, s[k]) # 0
     THEN UpperLetters[LetterIndex(LowerLetters, s[k])] ELSE s[k]]

ToLowerCase(s) ==
  [k \in 1..Len(s) |->
     IF LetterIndex(UpperLetters, s[k]) # 0
     THEN LowerLetters[LetterIndex(UpperLetters, s[k])] ELSE s[k]]

\* The characters of the model in the order of their UTF-16 code units
CodeUnitOrder == <<" ", "-", ".">> \o Digits \o <<"@">> \o UpperLetters \o LowerLetters

CodeUnit(c) == LetterIndex(CodeUnitOrder, c)

RECURSIVE StringLess(_, _)
\* a < b on strings: by code units, a proper prefix first
StringLess(a, b) ==
  IF b = <<>> THEN FALSE
  ELSE IF a = <<>> THEN TRUE
  ELSE IF Head(a) # Head(b) THEN CodeUnit(Head(a)) < CodeUnit(Head(b))
  ELSE StringLess(Tail(a), Tail(b))

RECURSIVE InsertSorted(_, _)
InsertSorted(sorted, x) ==
  IF sorted = <<>> THEN <<x>>
  ELSE IF StringLess(x, Head(sorted)) THEN <<x>> \o sorted
  ELSE <<Head(sorted)>> \o InsertSorted(Tail(sorted), x)

RECURSIVE Sort(_)
\* Array.prototype.sort() without a comparator, on strings (stable)
Sort(a) == IF a = <<>> THEN <<>> ELSE InsertSorted(Sort(SubSeq(a, 1, Len(a) - 1)), a[Len(a)])

\* Array.prototype.filter, as the indices kept, in order
RECURSIVE KeptIndices(_, _)
KeptIndices(keep, n) ==
  IF n = 0 THEN <<>>
  ELSE IF n \in keep THEN Append(KeptIndices(keep, n - 1), n)
  ELSE KeptIndices(keep, n - 1)

\* /^[^\s@]+@[^\s@]+\.[^\s@]+$/: no blank, one @ with something before it,
\* and after it a dot with something on both sides
EmailPattern(s) ==
  /\ \A k \in 1..Len(s) : s[k] # " "
  /\ Cardinality({k \in 1..Len(s) : s[k] = "@"}) = 1
  /\ LET at == CHOOSE k \in 1..Len(s) : s[k] = "@"
     IN /\ at > 1
        /\ \E d \in (at + 2)..(Len(s) - 1) : s[d] = "."

\* /^[A-J]-([01][0-9]|20)$/
SeatNumberPattern(s) ==
  /\ Len(s) = 4
  /\ LetterIndex(UpperLetters, s[1]) \in 1..10
  /\ s[2] = "-"
  /\ \/ s[3] \in {"0", "1"} /\ LetterIndex(Digits, s[4]) # 0
     \/ s[3] = "2" /\ s[4] = "0"

\* validateSeatNumber(seatNumber): /^[A-J]-([01][0-9]|20)$/.test(seatNumber)
validateSeatNumber(seatNumber) ==
  /\ Len(seatNumber) = 4
  /\ LetterIndex(UpperLetters, seatNumber[1]) \in 1..10
  /\ seatNumber[2] = "-"
  /\ \/ seatNumber[3] \in {"0", "1"} /\ LetterIndex(Digits, seatNumber[4]) # 0
     \/ seatNumber[3] = "2" /\ seatNumber[4] = "0"

StatusPending == <<"pending">>
StatusAssigned == <<"assigned">>
StatusCheckedIn == <<"checked-in">>

\* new Date(): the one instant the model distinguishes from null
Now == <<"Date", "now">>

\* randomUUID(): the n-th identifier drawn; no two draws are equal
UUID(n) == <<"uuid", NumToString(n)>>

\* `TKT-2024-${last six digits of Date.now()}-${random 0..999}`: the generator
\* can return the same code twice, so a code is any of MaxCodes values
TicketCode(n) == <<"T", "K", "T", "-">> \o NumToString(n)
TicketCodes == {TicketCode(n) : n \in 1..MaxCodes}

----------------------------------------------------------------------------
(* Venue layout *)

defaultVenueConfig ==
  [name |-> "Concert Hall",
   rows |-> <<"A", "B", "C", "D", "E", "F", "G", "H", "I", "J">>,
   seatsPerRow |-> 20,
   seatNumberFormat |-> "default"]

smallVenueConfig ==
  [name |-> "Intimate Theater",
   rows |-> <<"A", "B", "C", "D", "E">>,
   seatsPerRow |-> 15,
   seatNumberFormat |-> "small"]

largeVenueConfig ==
  [name |-> "Stadium",
   rows |-> <<"A", "B", "C", "D", "E", "F", "G", "H", "I", "J", "K", "L", "M", "N", "O">>,
   seatsPerRow |-> 30,
   seatNumberFormat |-> "large"]

\* The venue of the model: the default layout cut to one row of MaxSeats seats
modelVenueConfig ==
  [name |-> "Concert Hall",
   rows |-> <<"A">>,
   seatsPerRow |-> MaxSeats,
   seatNumberFormat |-> "default"]

getVenueConfig == modelVenueConfig

\* A format that leaves the row out of the seat number
seatNumberFormatWithoutRow(config, row, seatIndex) ==
  CASE config.seatNumberFormat = "default" ->
         <<"-">> \o PadStart(NumToString(seatIndex), 2, "0")
    [] config.seatNumberFormat = "small" ->
         PadStart(NumToString(seatIndex), 2, "0")
    [] config.seatNumberFormat = "large" ->
         <<"-">> \o PadStart(NumToString(seatIndex), 3, "0")

seatNumberFormat(config, row, seatIndex) ==
  CASE config.seatNumberFormat = "default" ->
         <<row, "-">> \o PadStart(NumToString(seatIndex), 2, "0")
    [] config.seatNumberFormat = "small" ->
         <<row>> \o PadStart(NumToString(seatIndex), 2, "0")
    [] config.seatNumberFormat = "large" ->
         <<row, "-">> \o PadStart(NumToString(seatIndex), 3, "0")

\* generateSeats(config): for each row, for i = 1..seatsPerRow, one descriptor
generateSeats(config) ==
  [k \in 1..(Len(config.rows) * config.seatsPerRow) |->
     LET row == config.rows[((k - 1) \div config.seatsPerRow) + 1]
         i == ((k - 1) % config.seatsPerRow) + 1
     IN [seatNumber |-> seatNumberFormat(config, row, i),
         row |-> <<row>>,
         seatIndex |-> PadStart(NumToString(i), 2, "0"),
         isOccupied |-> FALSE,
         ticketId |-> NULL]]

RECURSIVE ParseInt(_)
\* parseInt(digits, 10) of a string of decimal digits
ParseInt(digits) ==
  IF digits = <<>> THEN 0
  ELSE 10 * ParseInt(SubSeq(digits, 1, Len(digits) - 1))
         + (LetterIndex(Digits, digits[Len(digits)]) - 1)

\* isValidSeatNumber(seatNumber, config): /^([A-Z]+)-?(\d+)$/ takes the
\* capital letters the string starts with as the row, skips one dash and
\* needs digits up to the end
isValidSeatNumber(seatNumber, config) ==
  LET n == Len(seatNumber)
      letters == CHOOSE k \in 0..n :
                   /\ \A j \in 1..k : LetterIndex(UpperLetters, seatNumber[j]) # 0
                   /\ k < n => LetterIndex(UpperLetters, seatNumber[k + 1]) = 0
      dash == IF letters < n /\ seatNumber[letters + 1] = "-" THEN 1 ELSE 0
      row == SubSeq(seatNumber, 1, letters)
      seatIndexStr == SubSeq(seatNumber, letters + dash + 1, n)
      match == /\ letters >= 1
               /\ seatIndexStr # <<>>
               /\ \A j \in 1..Len(seatIndexStr) : LetterIndex(Digits, seatIndexStr[j]) # 0
  IN /\ match
     /\ \E r \in 1..Len(config.rows) : row = <<config.rows[r]>>
     /\ ParseInt(seatIndexStr) >= 1
     /\ ParseInt(seatIndexStr) <= config.seatsPerRow

\* MemStorage.initializeSeats with venueConfig the configuration returned by
\* getVenueConfig(): one Seat per generated descriptor
initializeSeatsOf(venueConfig) ==
  LET seatData == generateSeats(venueConfig)
  IN [k \in 1..Len(seatData) |->
        [id |-> UUID(k),
         seatNumber |-> seatData[k].seatNumber,
         row |-> seatData[k].row,
         seatIndex |-> seatData[k].seatIndex,
         isOccupied |-> FALSE,
         ticketId |-> NULL]]

initializeSeats == initializeSeatsOf(getVenueConfig)

VenueSeatNumbers == {initializeSeats[k].seatNumber : k \in 1..Len(initializeSeats)}

\* A seat number no layout of the model produces
UnknownSeat == <<"Z", "-", "9", "9">>

----------------------------------------------------------------------------
(* Map operations on a sequence of entries *)

\* Indices of the entries whose key field equals key
TicketIndex(tk, id) == {k \in 1..Len(tk) : tk[k].id = id}
SeatIndex(st, seatNumber) == {k \in 1..Len(st) : st[k].seatNumber = seatNumber}

\* Map.get: <<>> for undefined, <<entry>> otherwise
GetTicketEntry(tk, id) ==
  IF TicketIndex(tk, id) = {} THEN <<>>
  ELSE <<tk[CHOOSE k \in TicketIndex(tk, id) : TRUE]>>

GetSeatEntry(st, seatNumber) ==
  IF SeatIndex(st, seatNumber) = {} THEN <<>>
  ELSE <<st[CHOOSE k \in SeatIndex(st, seatNumber) : TRUE]>>

\* Map.set: replace the entry of the key in place, or append a new entry
SetTicketEntry(tk, id, t) ==
  IF TicketIndex(tk, id) = {} THEN Append(tk, t)
  ELSE [k \in 1..Len(tk) |-> IF tk[k].id = id THEN t ELSE tk[k]]

SetSeatEntry(st, seatNumber, s) ==
  IF SeatIndex(st, seatNumber) = {} THEN Append(st, s)
  ELSE [k \in 1..Len(st) |-> IF st[k].seatNumber = seatNumber THEN s ELSE st[k]]

----------------------------------------------------------------------------
(* MemStorage: the store contract over the two Maps *)

\* {...existing, ...updates}: the fields of updates over those of existing
Merge(existing, updates) ==
  [f \in (DOMAIN existing) \cup (DOMAIN updates) |->
     IF f \in DOMAIN updates THEN updates[f] ELSE existing[f]]

\* generateQRCode(data): the data URL of the code's image, a function of data
generateQRCode(data) == <<"Q", "R", ":">> \o data

\* The draft the routes hand to createTicket
InsertTicket(guestName, email, ticketId, status, seatNumber) ==
  [guestName |-> guestName,
   email |-> email,
   ticketId |-> ticketId,
   qrCode |-> generateQRCode(ticketId),
   status |-> status,
   seatNumber |-> seatNumber]

\* A Ticket that keeps the draft's status and seatNumber as they are
NewTicketWithoutDefaults(insertTicket, id) ==
  Merge(insertTicket,
        [id |-> id,
         purchaseDate |-> Now,
         assignedAt |-> NULL,
         checkedInAt |-> NULL])

\* MemStorage.createTicket: the Ticket built from the draft
NewTicket(insertTicket, id) ==
  Merge(insertTicket,
        [id |-> id,
         status |-> OrElse(insertTicket.status, StatusPending),
         seatNumber |-> OrElse(insertTicket.seatNumber, NULL),
         purchaseDate |-> Now,
         assignedAt |-> NULL,
         checkedInAt |-> NULL])

\* MemStorage.createTicket: tickets.set(id, ticket) under a fresh id
MemCreateTicket(tk, insertTicket) ==
  LET id == UUID(Len(tk) + 1)
  IN SetTicketEntry(tk, id, NewTicket(insertTicket, id))

\* MemStorage.updateTicket: the Map after the merge (the caller checks MemHasTicket,
\* the code throws 'Ticket not found' otherwise)
MemHasTicket(tk, id) == GetTicketEntry(tk, id) # <<>>

MemUpdateTicket(tk, id, updates) ==
  SetTicketEntry(tk, id, Merge(GetTicketEntry(tk, id)[1], updates))

\* MemStorage.updateSeat: the Map after the merge (throws 'Seat not found'
\* when MemHasSeat is false)
MemHasSeat(st, seatNumber) == GetSeatEntry(st, seatNumber) # <<>>

\* An updateSeat that resets the fields the caller did not supply
MemUpdateSeatResetting(st, seatNumber, updates) ==
  SetSeatEntry(st, seatNumber,
    Merge(Merge(GetSeatEntry(st, seatNumber)[1], [isOccupied |-> FALSE, ticketId |-> NULL]),
          updates))

MemUpdateSeat(st, seatNumber, updates) ==
  SetSeatEntry(st, seatNumber, Merge(GetSeatEntry(st, seatNumber)[1], updates))

----------------------------------------------------------------------------
(* The result of assignSeatAtomically *)

ErrTicketNotFound == "Ticket not found"
ErrSeatNotFound == "Seat not found"
ErrSeatOccupied == "Seat is already occupied"
ErrTicketHasSeat == "Ticket already has a seat assigned"
ErrInternal == "Failed to assign seat due to internal error"

\* The messages of POST /api/tickets/:id/checkin
ErrAlreadyCheckedIn == "Ticket already checked in"
ErrNotAssigned == "Cannot check in ticket without assigned seat"
ErrCheckInFailed == "Failed to check in ticket"

\* The message of the error a failed network call throws
ErrNetwork == "Network error"

\* A check-in that admits a ticket without a seat
CheckInValidationAllowingPending(ticket) ==
  IF ticket = <<>> THEN ErrTicketNotFound
  ELSE IF ticket[1].status = StatusCheckedIn THEN ErrAlreadyCheckedIn
  ELSE ""

\* The checks of the check-in handler on the ticket it fetched (<<>> for
\* undefined), in the code's order: "" when they pass
CheckInValidation(ticket) ==
  IF ticket = <<>> THEN ErrTicketNotFound
  ELSE IF ticket[1].status = StatusCheckedIn THEN ErrAlreadyCheckedIn
  ELSE IF ticket[1].status = StatusPending THEN ErrNotAssigned
  ELSE ""

Failure(message) == [success |-> FALSE, error |-> message, ticket |-> <<>>]
Success(ticket) == [success |-> TRUE, error |-> "", ticket |-> <<ticket>>]
NoResult == [success |-> FALSE, error |-> "(pending)", ticket |-> <<>>]

\* The validation without the check of the seat's occupancy
ClaimValidationIgnoringOccupancy(ticket, seat) ==
  IF ticket = <<>> THEN ErrTicketNotFound
  ELSE IF seat = <<>> THEN ErrSeatNotFound
  ELSE IF ~Falsy(ticket[1].seatNumber) THEN ErrTicketHasSeat
  ELSE ""

\* A validation that looks at the seat before the ticket
ClaimValidationSeatFirst(ticket, seat) ==
  IF seat = <<>> THEN ErrSeatNotFound
  ELSE IF seat[1].isOccupied THEN ErrSeatOccupied
  ELSE IF ticket = <<>> THEN ErrTicketNotFound
  ELSE IF ~Falsy(ticket[1].seatNumber) THEN ErrTicketHasSeat
  ELSE ""

\* The validation of a claim, in the code's order, on the ticket and the seat it
\* fetched (<<>> for undefined): "" when every check passes
ClaimValidation(ticket, seat) ==
  IF ticket = <<>> THEN ErrTicketNotFound
  ELSE IF seat = <<>> THEN ErrSeatNotFound
  ELSE IF seat[1].isOccupied THEN ErrSeatOccupied
  ELSE IF ~Falsy(ticket[1].seatNumber) THEN ErrTicketHasSeat
  ELSE ""

\* A claimed seat that records the ticket and is not marked occupied
ClaimedSeatNotMarked(seat, ticketIdForSeat) ==
  Merge(seat, [ticketId |-> ticketIdForSeat])

\* The two records a successful claim writes
ClaimedSeat(seat, ticketIdForSeat) ==
  Merge(seat, [isOccupied |-> TRUE, ticketId |-> ticketIdForSeat])

ClaimedTicket(ticket, seatNumber) ==
  Merge(ticket, [seatNumber |-> seatNumber, status |-> StatusAssigned, assignedAt |-> Now])

\* MemStorage._performSeatAssignment: it has no await, so it runs to its end
\* when it is called.  Nothing in its try block can throw, so its catch (the
\* rollback) is never entered.
PerformSeatAssignment(tk, st, ticketId, seatNumber, ticketIdForSeat) ==
  LET ticket == GetTicketEntry(tk, ticketId)
      seat == GetSeatEntry(st, seatNumber)
      error == ClaimValidation(ticket, seat)
  IN IF error # ""
     THEN [tickets |-> tk, seats |-> st, result |-> Failure(error)]
     ELSE LET updatedSeat == ClaimedSeat(seat[1], ticketIdForSeat)
              updatedTicket == ClaimedTicket(ticket[1], seatNumber)
          IN [tickets |-> SetTicketEntry(tk, ticketId, updatedTicket),
              seats |-> SetSeatEntry(st, seatNumber, updatedSeat),
              result |-> Success(updatedTicket)]

----------------------------------------------------------------------------
(* Calls *)

TicketIdArgs == {UUID(n) : n \in 1..MaxTickets}
SeatArgs == VenueSeatNumbers \cup {UnknownSeat}

NoRequest == [kind |-> "none"]
NoLocals == [none |-> TRUE]

InFlight(p) == pc[p] \notin {"idle", "done"}

\* Calls are numbered in the order they are made
NextCall(p) == pc[p] = "idle" /\ \A q \in Procs : q < p => pc[q] # "idle"

\* Continue the call at the head of the microtask queue
Dequeue(q) == Tail(q)

----------------------------------------------------------------------------
(* POST /api/tickets *)

\* res.status(status).json(...): the message of the body, and its other
\* fields as <<>> or <<record>>
Response(route, status, message, data) ==
  [route |-> route, status |-> status, message |-> message, data |-> data]

NoResponse == Response("none", 0, "", <<>>)

\* createTicketSchema.parse(req.body) of a body the schema accepts: status and
\* seatNumber are optional (NULL for a field the body leaves out)
TicketData(guestName, email, status, seatNumber) ==
  [guestName |-> guestName, email |-> email, status |-> status, seatNumber |-> seatNumber]

GuestEmail == <<"G", "@", "x", ".", "y", "z">>

\* The body the frontend sends: a name and an address
PlainTicketData == TicketData(<<"G">>, GuestEmail, NULL, NULL)

\* The handler's own checks after the schema: "" when they pass
CreateTicketValidation(ticketData) ==
  IF Falsy(ticketData.guestName) \/ Len(Trim(ticketData.guestName)) = 0
  THEN "Guest name is required"
  ELSE IF Falsy(ticketData.email) \/ ~EmailPattern(ticketData.email)
  THEN "Valid email address is required"
  ELSE ""

\* { ...sanitizedData, ticketId, qrCode }
CreateTicketDraft(ticketData, ticketId) ==
  InsertTicket(Substring(Trim(ticketData.guestName), 100),
               Substring(ToLowerCase(Trim(ticketData.email)), 255),
               ticketId, ticketData.status, ticketData.seatNumber)

\* POST /api/tickets on the in-memory store.  The handler's awaits precede
\* its one store call, so the handler is one step of the store.
MemCreateTicketRoute(ticketData, ticketId) ==
  /\ backend = "memory"
  /\ Len(tickets) < MaxTickets
  /\ IF CreateTicketValidation(ticketData) # ""
     THEN /\ last' = Response("createTicket", 400, CreateTicketValidation(ticketData), <<>>)
          /\ tickets' = tickets
     ELSE LET created == MemCreateTicket(tickets, CreateTicketDraft(ticketData, ticketId))
          IN /\ tickets' = created
             /\ last' = Response("createTicket", 200, "", <<created[Len(created)]>>)
  /\ UNCHANGED <<limiter, backend, seats, operationLocks, ticketRows, seatRows, pc, req, loc, res, runq>>

----------------------------------------------------------------------------
(* MemStorage.assignSeatAtomically *)

\* One key for every seat
LockKeyGlobal(seatNumber) == <<"s", "e", "a", "t", "-">>

\* `seat-${seatNumber}`
LockKey(seatNumber) == <<"s", "e", "a", "t", "-">> \o seatNumber

HasLock(locks, key) == key \in DOMAIN locks

SetLock(locks, key, operation) ==
  [k \in (DOMAIN locks) \cup {key} |-> IF k = key THEN operation ELSE locks[k]]

\* A finally block that leaves the table as it is
DeleteLockNever(locks, key) == locks

\* finally: operationLocks.delete(lockKey)
DeleteLock(locks, key) == [k \in (DOMAIN locks) \ {key} |-> locks[k]]

\* The arguments of the call routes.ts makes: the ticket's own code is passed
\* as ticketIdForSeat (NULL when the store has no such ticket).  The other
\* fields record the moment of the call: what the store held (ticketAtCall,
\* seatAtCall), the call whose operation the lock table held for the seat
\* (blocker, 0 for none) and the calls in flight (concurrent).
ClaimRequest(tk, st, id, seatNumber, blocker) ==
  [kind |-> "claim",
   ticketId |-> id,
   seatNumber |-> seatNumber,
   ticketIdForSeat |->
     IF GetTicketEntry(tk, id) # <<>> THEN GetTicketEntry(tk, id)[1].ticketId ELSE NULL,
   ticketAtCall |-> GetTicketEntry(tk, id),
   seatAtCall |-> GetSeatEntry(st, seatNumber),
   blocker |-> blocker,
   concurrent |-> {q \in Procs : InFlight(q)}]

\* A promise that settles only when the call that awaits it has returned
OperationSettledOnReturn(q) == pc[q] = "done"

\* The promise of call q's _performSeatAssignment.  The function has no await:
\* its promise is settled once the function has been called.
OperationSettled(q) == pc[q] \in {"awaitOperation", "done"}

\* An operation that checks the ticket and the seat as they were when
\* assignSeatAtomically was called
MemRunOperationOnStaleRead(p, r) ==
  LET error == ClaimValidation(r.ticketAtCall, r.seatAtCall)
  IN /\ IF error # ""
        THEN /\ UNCHANGED <<tickets, seats>>
             /\ loc' = [loc EXCEPT ![p] = [result |-> Failure(error)]]
        ELSE /\ tickets' = SetTicketEntry(tickets, r.ticketId,
                              ClaimedTicket(r.ticketAtCall[1], r.seatNumber))
             /\ seats' = SetSeatEntry(seats, r.seatNumber,
                            ClaimedSeat(r.seatAtCall[1], r.ticketIdForSeat))
             /\ loc' = [loc EXCEPT ![p] =
                         [result |-> Success(ClaimedTicket(r.ticketAtCall[1], r.seatNumber))]]
     /\ operationLocks' = SetLock(operationLocks, LockKey(r.seatNumber), p)
     /\ pc' = [pc EXCEPT ![p] = "awaitOperation"]

\* const operation = this._performSeatAssignment(...);
\* this.operationLocks.set(lockKey, operation); await operation
MemRunOperation(p, r) ==
  LET done == PerformSeatAssignment(tickets, seats, r.ticketId, r.seatNumber,
                                    r.ticketIdForSeat)
  IN /\ tickets' = done.tickets
     /\ seats' = done.seats
     /\ operationLocks' = SetLock(operationLocks, LockKey(r.seatNumber), p)
     /\ loc' = [loc EXCEPT ![p] = [result |-> done.result]]
     /\ pc' = [pc EXCEPT ![p] = "awaitOperation"]

\* The call, up to its first await
MemAssignSeat(p, id, seatNumber) ==
  /\ backend = "memory"
  /\ NextCall(p)
  /\ LET r == ClaimRequest(tickets, seats, id, seatNumber,
                           IF HasLock(operationLocks, LockKey(seatNumber))
                           THEN operationLocks[LockKey(seatNumber)] ELSE 0)
     IN /\ req' = [req EXCEPT ![p] = r]
        /\ IF HasLock(operationLocks, LockKey(seatNumber))
           THEN \* await this.operationLocks.get(lockKey)
                /\ pc' = [pc EXCEPT ![p] = "awaitLock"]
                /\ loc' = loc
                /\ UNCHANGED <<tickets, seats, operationLocks>>
           ELSE MemRunOperation(p, r)
  /\ runq' = Append(runq, p)
  /\ UNCHANGED <<limiter, backend, last, ticketRows, seatRows, res>>

\* A call with any arguments
MemAssignSeatCall(p, id, seatNumber) ==
  /\ p <= MaxCalls
  /\ MemAssignSeat(p, id, seatNumber)

\* The p-th of the racing claims: it claims for the p-th ticket
MemAssignSeatRace(p, seatNumber) == MemAssignSeat(p, UUID(p), seatNumber)

\* The awaited operation was settled: the call goes on without looking at
\* the table again
MemAssignSeatAfterLock(p) ==
  /\ runq # <<>> /\ Head(runq) = p
  /\ pc[p] = "awaitLock"
  /\ OperationSettled(req[p].blocker)
  /\ MemRunOperation(p, req[p])
  /\ runq' = Append(Dequeue(runq), p)
  /\ UNCHANGED <<limiter, backend, last, ticketRows, seatRows, req, res>>

\* const result = await operation; return result; finally delete the lock
MemAssignSeatReturn(p) ==
  /\ runq # <<>> /\ Head(runq) = p
  /\ pc[p] = "awaitOperation"
  /\ OperationSettled(p)
  /\ operationLocks' = DeleteLock(operationLocks, LockKey(req[p].seatNumber))
  /\ res' = [res EXCEPT ![p] = loc[p].result]
  /\ loc' = [loc EXCEPT ![p] = NoLocals]
  /\ pc' = [pc EXCEPT ![p] = "done"]
  /\ runq' = Dequeue(runq)
  /\ UNCHANGED <<limiter, backend, last, tickets, seats, ticketRows, seatRows, req>>

----------------------------------------------------------------------------
(* GoogleSheetsStorage: rows of cells *)

TicketsHeader ==
  <<<<"ID">>, <<"Ticket ID">>, <<"Guest Name">>, <<"Email">>, <<"Seat Number">>,
    <<"QR Code">>, <<"Status">>, <<"Purchase Date">>, <<"Assigned At">>,
    <<"Checked In At">>>>

SeatsHeader ==
  <<<<"ID">>, <<"Seat Number">>, <<"Row">>, <<"Seat Index">>, <<"Is Occupied">>,
    <<"Ticket ID">>>>

\* Date.prototype.toISOString() and new Date(isoString)
ToISOString(date) == <<"ISO", date[2]>>
NewDate(iso) == <<"Date", iso[2]>>

\* Columns are numbered from 1 here and from 0 in the code
rowToTicket(row) ==
  [id |-> OrElse(row[1], <<>>),
   ticketId |-> OrElse(row[2], <<>>),
   guestName |-> OrElse(row[3], <<>>),
   email |-> OrElse(row[4], <<>>),
   seatNumber |-> OrElse(row[5], NULL),
   qrCode |-> OrElse(row[6], <<>>),
   status |-> OrElse(row[7], StatusPending),
   purchaseDate |-> IF Falsy(row[8]) THEN Now ELSE NewDate(row[8]),
   assignedAt |-> IF Falsy(row[9]) THEN NULL ELSE NewDate(row[9]),
   checkedInAt |-> IF Falsy(row[10]) THEN NULL ELSE NewDate(row[10])]

ticketToRow(ticket) ==
  <<ticket.id,
    ticket.ticketId,
    ticket.guestName,
    ticket.email,
    OrElse(ticket.seatNumber, <<>>),
    ticket.qrCode,
    ticket.status,
    ToISOString(ticket.purchaseDate),
    IF ticket.assignedAt # NULL THEN ToISOString(ticket.assignedAt) ELSE <<>>,
    IF ticket.checkedInAt # NULL THEN ToISOString(ticket.checkedInAt) ELSE <<>>>>

rowToSeat(row) ==
  [id |-> OrElse(row[1], <<>>),
   seatNumber |-> OrElse(row[2], <<>>),
   row |-> OrElse(row[3], <<>>),
   seatIndex |-> OrElse(row[4], <<>>),
   isOccupied |-> row[5] = <<"TRUE">>,
   ticketId |-> OrElse(row[6], NULL)]

seatToRowLowerCase(seat) ==
  <<seat.id,
    seat.seatNumber,
    seat.row,
    seat.seatIndex,
    IF seat.isOccupied THEN <<"true">> ELSE <<"false">>,
    OrElse(seat.ticketId, <<>>)>>

seatToRow(seat) ==
  <<seat.id,
    seat.seatNumber,
    seat.row,
    seat.seatIndex,
    IF seat.isOccupied THEN <<"TRUE">> ELSE <<"FALSE">>,
    OrElse(seat.ticketId, <<>>)>>

\* initializeSeatsIfEmpty: the rows written under the header, n seats for
\* each of rows
SeedRowsOf(rows, n) ==
  [k \in 1..(Len(rows) * n) |->
        LET row == rows[((k - 1) \div n) + 1]
            i == ((k - 1) % n) + 1
        IN <<UUID(k),
             <<row, "-">> \o PadStart(NumToString(i), 2, "0"),
             <<row>>,
             PadStart(NumToString(i), 2, "0"),
             <<"FALSE">>,
             <<>>>>]

\* The seed of the model's venue
SeedSeatRows == SeedRowsOf(modelVenueConfig.rows, modelVenueConfig.seatsPerRow)

\* The seed the code writes: rows A to J of 20 seats, whatever the venue
\* configuration
HardCodedSeedRows == SeedRowsOf(defaultVenueConfig.rows, 20)

\* rows.find(row => row[col] === key) over the range A:..., header included:
\* <<>> for undefined, <<row>> otherwise
FindRow(rows, col, key) ==
  LET hits == {k \in 1..Len(rows) : rows[k][col] = key}
  IN IF hits = {} THEN <<>>
     ELSE <<rows[CHOOSE k \in hits : \A j \in hits : k <= j]>>

\* An index that is the first data row whatever the key
FindRowIndexOfFirstRow(rows, col, key) == IF Len(rows) >= 2 THEN 2 ELSE 0

\* rows.findIndex(row => row[col] === key), counted from 1; 0 for -1
FindRowIndex(rows, col, key) ==
  LET hits == {k \in 1..Len(rows) : rows[k][col] = key}
  IN IF hits = {} THEN 0 ELSE CHOOSE k \in hits : \A j \in hits : k <= j

\* getTicket / getSeat: one read of the sheet
SheetsGetTicket(rows, id) ==
  IF FindRow(rows, 1, id) = <<>> THEN <<>> ELSE <<rowToTicket(FindRow(rows, 1, id)[1])>>

SheetsGetSeat(rows, seatNumber) ==
  IF FindRow(rows, 2, seatNumber) = <<>> THEN <<>>
  ELSE <<rowToSeat(FindRow(rows, 2, seatNumber)[1])>>

\* getAllTickets / getAllSeats: the range from row 2 on, converted
SheetsGetAllTickets(rows) == [k \in 1..(Len(rows) - 1) |-> rowToTicket(rows[k + 1])]
SheetsGetAllSeats(rows) == [k \in 1..(Len(rows) - 1) |-> rowToSeat(rows[k + 1])]

\* A write that adds the row at the end of the sheet
WriteRowAppended(rows, rowIndex, row) == Append(rows, row)

\* values.update of one row's range
WriteRow(rows, rowIndex, row) == [rows EXCEPT ![rowIndex] = row]

\* createTicket: values.append of the new ticket's row
SheetsCreateTicket(rows, insertTicket) ==
  Append(rows, ticketToRow(NewTicket(insertTicket, UUID(Len(rows)))))

----------------------------------------------------------------------------
(* The store as its callers see it (getAllTickets, getAllSeats) *)

AllTickets == IF backend = "memory" THEN tickets ELSE SheetsGetAllTickets(ticketRows)
AllSeats == IF backend = "memory" THEN seats ELSE SheetsGetAllSeats(seatRows)

TicketOf(id) == GetTicketEntry(AllTickets, id)
SeatOf(seatNumber) == GetSeatEntry(AllSeats, seatNumber)

----------------------------------------------------------------------------
(* POST /api/tickets on the Sheets store: one append *)

SheetsCreateTicketRoute(ticketData, ticketId) ==
  /\ backend = "google-sheets"
  /\ Len(ticketRows) - 1 < MaxTickets
  /\ IF CreateTicketValidation(ticketData) # ""
     THEN /\ last' = Response("createTicket", 400, CreateTicketValidation(ticketData), <<>>)
          /\ ticketRows' = ticketRows
     ELSE /\ ticketRows' = SheetsCreateTicket(ticketRows, CreateTicketDraft(ticketData, ticketId))
          /\ last' = Response("createTicket", 200, "",
                              <<NewTicket(CreateTicketDraft(ticketData, ticketId),
                                          UUID(Len(ticketRows)))>>)
  /\ UNCHANGED <<limiter, backend, tickets, seats, operationLocks, seatRows, pc, req, loc, res, runq>>

----------------------------------------------------------------------------
(* GoogleSheetsStorage.assignSeatAtomically.  Every sheet read and write is *)
(* a network call: one step each, in any order among the calls in flight.   *)

\* The call: getTicket is requested
SheetsAssignSeatCall(p, id, seatNumber) ==
  /\ backend = "google-sheets"
  /\ NextCall(p)
  /\ p <= MaxCalls
  /\ req' = [req EXCEPT ![p] = ClaimRequest(AllTickets, AllSeats, id, seatNumber, 0)]
  /\ pc' = [pc EXCEPT ![p] = "claim_getTicket"]
  /\ UNCHANGED <<limiter, backend, last, tickets, seats, operationLocks, ticketRows, seatRows, loc, res, runq>>

\* const ticket = await this.getTicket(ticketId)
SheetsClaimGetTicket(p) ==
  /\ pc[p] = "claim_getTicket"
  /\ loc' = [loc EXCEPT ![p] = [ticket |-> SheetsGetTicket(ticketRows, req[p].ticketId)]]
  /\ pc' = [pc EXCEPT ![p] = "claim_getSeat"]
  /\ UNCHANGED <<limiter, backend, last, tickets, seats, operationLocks, ticketRows, seatRows, req, res, runq>>

\* const seat = await this.getSeat(seatNumber); the four checks; then
\* updateSeat is entered and requests its own getSeat
SheetsClaimGetSeat(p) ==
  /\ pc[p] = "claim_getSeat"
  /\ LET seat == SheetsGetSeat(seatRows, req[p].seatNumber)
         error == ClaimValidation(loc[p].ticket, seat)
     IN IF error # ""
        THEN /\ res' = [res EXCEPT ![p] = Failure(error)]
             /\ loc' = [loc EXCEPT ![p] = NoLocals]
             /\ pc' = [pc EXCEPT ![p] = "done"]
        ELSE /\ loc' = [loc EXCEPT ![p] =
                  [ticket |-> loc[p].ticket, seat |-> seat,
                   updates |-> [isOccupied |-> TRUE, ticketId |-> req[p].ticketIdForSeat]]]
             /\ pc' = [pc EXCEPT ![p] = "updateSeat_getSeat"]
             /\ res' = res
  /\ UNCHANGED <<limiter, backend, last, tickets, seats, operationLocks, ticketRows, seatRows, req, runq>>

\* throw new Error(message) inside updateSeat or updateTicket: their catch
\* logs it and throws it again.  A direct caller of the store receives it;
\* catch (error) of assignSeatAtomically answers ErrInternal;
\* the check-in route's catch answers 'Failed to check in ticket'.
SheetsThrow(p, message) ==
  /\ res' = [res EXCEPT ![p] =
       Failure(IF req[p].kind = "checkin" THEN ErrCheckInFailed
               ELSE IF req[p].kind \in {"updateSeat", "updateTicket"} THEN message
               ELSE ErrInternal)]
  /\ loc' = [loc EXCEPT ![p] = [failedAt |-> pc[p]]]
  /\ pc' = [pc EXCEPT ![p] = "done"]

\* The same for the throw of a failed network call
SheetsClaimCatch(p) == SheetsThrow(p, ErrNetwork)

\* updateSeat: const currentSeat = await this.getSeat(seatNumber)
SheetsUpdateSeatGetSeat(p) ==
  /\ pc[p] = "updateSeat_getSeat"
  /\ LET currentSeat == SheetsGetSeat(seatRows, req[p].seatNumber)
     IN IF currentSeat = <<>>
        THEN SheetsThrow(p, ErrSeatNotFound)
        ELSE /\ loc' = [loc EXCEPT ![p] =
                  Merge(loc[p], [updatedSeat |-> Merge(currentSeat[1], loc[p].updates)])]
             /\ pc' = [pc EXCEPT ![p] = "updateSeat_getRows"]
             /\ res' = res
  /\ UNCHANGED <<limiter, backend, last, tickets, seats, operationLocks, ticketRows, seatRows, req, runq>>

\* updateSeat: the second read, for the row index
SheetsUpdateSeatGetRows(p) ==
  /\ pc[p] = "updateSeat_getRows"
  /\ LET rowIndex == FindRowIndex(seatRows, 2, req[p].seatNumber)
     IN IF rowIndex = 0
        THEN SheetsThrow(p, "Seat not found in sheet")
        ELSE /\ loc' = [loc EXCEPT ![p] = Merge(loc[p], [rowIndex |-> rowIndex])]
             /\ pc' = [pc EXCEPT ![p] = "updateSeat_update"]
             /\ res' = res
  /\ UNCHANGED <<limiter, backend, last, tickets, seats, operationLocks, ticketRows, seatRows, req, runq>>

\* updateSeat: the row is overwritten and updatedSeat returned.  In a claim,
\* updateTicket is entered next and requests its getTicket.
SheetsUpdateSeatWrite(p) ==
  /\ pc[p] = "updateSeat_update"
  /\ seatRows' = WriteRow(seatRows, loc[p].rowIndex, seatToRow(loc[p].updatedSeat))
  /\ IF req[p].kind = "updateSeat"
     THEN /\ loc' = [loc EXCEPT ![p] = [returned |-> loc[p].updatedSeat]]
          /\ res' = [res EXCEPT ![p] = [success |-> TRUE, error |-> "", ticket |-> <<>>]]
          /\ pc' = [pc EXCEPT ![p] = "done"]
     ELSE /\ loc' = [loc EXCEPT ![p] =
               [ticket |-> loc[p].ticket, seat |-> loc[p].seat,
                updates |-> [seatNumber |-> req[p].seatNumber, status |-> StatusAssigned,
                             assignedAt |-> Now]]]
          /\ res' = res
          /\ pc' = [pc EXCEPT ![p] = "updateTicket_getTicket"]
  /\ UNCHANGED <<limiter, backend, last, tickets, seats, operationLocks, ticketRows, req, runq>>

\* updateTicket: const currentTicket = await this.getTicket(id)
SheetsUpdateTicketGetTicket(p) ==
  /\ pc[p] = "updateTicket_getTicket"
  /\ LET currentTicket == SheetsGetTicket(ticketRows, req[p].ticketId)
     IN IF currentTicket = <<>>
        THEN SheetsThrow(p, ErrTicketNotFound)
        ELSE /\ loc' = [loc EXCEPT ![p] =
                  Merge(loc[p], [updatedTicket |-> Merge(currentTicket[1], loc[p].updates)])]
             /\ pc' = [pc EXCEPT ![p] = "updateTicket_getRows"]
             /\ res' = res
  /\ UNCHANGED <<limiter, backend, last, tickets, seats, operationLocks, ticketRows, seatRows, req, runq>>

\* updateTicket: the second read, for the row index
SheetsUpdateTicketGetRows(p) ==
  /\ pc[p] = "updateTicket_getRows"
  /\ LET rowIndex == FindRowIndex(ticketRows, 1, req[p].ticketId)
     IN IF rowIndex = 0
        THEN SheetsThrow(p, "Ticket not found in sheet")
        ELSE /\ loc' = [loc EXCEPT ![p] = Merge(loc[p], [rowIndex |-> rowIndex])]
             /\ pc' = [pc EXCEPT ![p] = "updateTicket_update"]
             /\ res' = res
  /\ UNCHANGED <<limiter, backend, last, tickets, seats, operationLocks, ticketRows, seatRows, req, runq>>

\* updateTicket: the row is overwritten; the claim returns success
SheetsUpdateTicketWrite(p) ==
  /\ pc[p] = "updateTicket_update"
  /\ ticketRows' = WriteRow(ticketRows, loc[p].rowIndex, ticketToRow(loc[p].updatedTicket))
  /\ res' = [res EXCEPT ![p] = Success(loc[p].updatedTicket)]
  /\ loc' = [loc EXCEPT ![p] = NoLocals]
  /\ pc' = [pc EXCEPT ![p] = "done"]
  /\ UNCHANGED <<limiter, backend, last, tickets, seats, operationLocks, seatRows, req, runq>>

\* The network calls a claim on the Sheets store waits for
SheetsClaimSteps ==
  {"claim_getTicket", "claim_getSeat", "updateSeat_getSeat", "updateSeat_getRows",
   "updateSeat_update", "updateTicket_getTicket", "updateTicket_getRows",
   "updateTicket_update"}

\* A network call of a claim fails: the await throws
SheetsClaimCallFails(p) ==
  /\ pc[p] \in SheetsClaimSteps
  /\ SheetsClaimCatch(p)
  /\ UNCHANGED <<limiter, backend, last, tickets, seats, operationLocks, ticketRows, seatRows, req, runq>>

----------------------------------------------------------------------------
(* POST /api/tickets/:id/checkin on the Sheets store.  The handler's reply   *)
(* is kept as the call's result: Success(ticket) for res.json(updatedTicket) *)
(* and Failure(message) for a status of 400, 404 or 500.                     *)

CheckInRequest(tk, id) ==
  [kind |-> "checkin",
   ticketId |-> id,
   ticketAtCall |-> GetTicketEntry(tk, id),
   concurrent |-> {q \in Procs : InFlight(q)}]

\* The request: getTicket is requested
SheetsCheckInCall(p, id) ==
  /\ backend = "google-sheets"
  /\ NextCall(p)
  /\ req' = [req EXCEPT ![p] = CheckInRequest(AllTickets, id)]
  /\ pc' = [pc EXCEPT ![p] = "checkin_getTicket"]
  /\ UNCHANGED <<limiter, backend, last, tickets, seats, operationLocks, ticketRows, seatRows, loc, res, runq>>

\* const ticket = await storage.getTicket(sanitizedId); the three checks;
\* then updateTicket is entered and requests its own getTicket
SheetsCheckInGetTicket(p) ==
  /\ pc[p] = "checkin_getTicket"
  /\ LET ticket == SheetsGetTicket(ticketRows, req[p].ticketId)
         error == CheckInValidation(ticket)
     IN IF error # ""
        THEN /\ res' = [res EXCEPT ![p] = Failure(error)]
             /\ loc' = [loc EXCEPT ![p] = NoLocals]
             /\ pc' = [pc EXCEPT ![p] = "done"]
        ELSE /\ loc' = [loc EXCEPT ![p] =
                  [ticket |-> ticket,
                   updates |-> [status |-> StatusCheckedIn, checkedInAt |-> Now]]]
             /\ pc' = [pc EXCEPT ![p] = "updateTicket_getTicket"]
             /\ res' = res
  /\ UNCHANGED <<limiter, backend, last, tickets, seats, operationLocks, ticketRows, seatRows, req, runq>>

----------------------------------------------------------------------------
(* Route handlers on the in-memory store, each run from its request to its  *)
(* response with no other request in between                                *)

\* No storage call is in flight
Quiescent == \A p \in Procs : ~InFlight(p)

\* POST /api/tickets/:id/assign-seat
AssignSeatRoute(id, seatNumber) ==
  /\ backend = "memory"
  /\ Quiescent
  /\ IF Falsy(seatNumber)
     THEN /\ last' = Response("assignSeat", 400, "Seat number is required", <<>>)
          /\ UNCHANGED <<tickets, seats>>
     ELSE IF ~SeatNumberPattern(seatNumber)
     THEN /\ last' = Response("assignSeat", 400, "Invalid seat number format", <<>>)
          /\ UNCHANGED <<tickets, seats>>
     ELSE IF ~MemHasTicket(tickets, id)
     THEN /\ last' = Response("assignSeat", 404, ErrTicketNotFound, <<>>)
          /\ UNCHANGED <<tickets, seats>>
     ELSE LET ticket == GetTicketEntry(tickets, id)[1]
              done == PerformSeatAssignment(tickets, seats, id, seatNumber, ticket.ticketId)
          IN /\ tickets' = done.tickets
             /\ seats' = done.seats
             /\ last' = IF done.result.success
                        THEN Response("assignSeat", 200, "", done.result.ticket)
                        ELSE Response("assignSeat", 400, done.result.error, <<>>)
  /\ operationLocks' = operationLocks
  /\ UNCHANGED <<limiter, backend, ticketRows, seatRows, pc, req, loc, res, runq>>

\* POST /api/tickets/:id/checkin
CheckInRoute(id) ==
  /\ backend = "memory"
  /\ Quiescent
  /\ LET ticket == GetTicketEntry(tickets, id)
         error == CheckInValidation(ticket)
     IN IF error # ""
        THEN /\ last' = Response("checkin", IF ticket = <<>> THEN 404 ELSE 400, error, <<>>)
             /\ tickets' = tickets
        ELSE LET updated == MemUpdateTicket(tickets, id,
                              [status |-> StatusCheckedIn, checkedInAt |-> Now])
             IN /\ tickets' = updated
                /\ last' = Response("checkin", 200, "", GetTicketEntry(updated, id))
  /\ UNCHANGED <<limiter, backend, seats, operationLocks, ticketRows, seatRows, pc, req, loc, res, runq>>

\* One parsed CSV record; NULL for a column the file does not have
ImportRecord(guestName, email, seatNumber) ==
  [guestName |-> guestName, email |-> email, seatNumber |-> seatNumber]

\* An entry numbered as if the header were not counted
ImportErrorWithoutHeader(i, error, seat, record) ==
  [row |-> i + 1, error |-> error, seat |-> seat, data |-> record]

\* results.errors.push({ row: i + 2, error, data: record }); seat is the seat
\* number the message quotes (NULL when it quotes none)
ImportError(i, error, seat, record) ==
  [row |-> i + 2, error |-> error, seat |-> seat, data |-> record]

\* What the import has done so far: the two Maps and the results object
ImportState(tk, st, imported, seatsAssigned, errors) ==
  [tickets |-> tk, seats |-> st, imported |-> imported,
   seatsAssigned |-> seatsAssigned, errors |-> errors]

ImportFailed(S, i, error, seat, record) ==
  [S EXCEPT !.errors = Append(S.errors, ImportError(i, error, seat, record))]

\* The ticket of a record: createTicket, and updateTicket when it has a seat
ImportCreateTicket(tk, record, ticketId, status, seatNumber) ==
  LET draft == InsertTicket(Substring(Trim(record.guestName), 100),
                            Substring(ToLowerCase(Trim(record.email)), 255),
                            ticketId, status, seatNumber)
      created == MemCreateTicket(tk, draft)
  IN IF ~Falsy(seatNumber)
     THEN MemUpdateTicket(created, created[Len(created)].id, [assignedAt |-> Now])
     ELSE created

\* The checks of a record's guestName and email: "" when they pass
ImportGuestError(record) ==
  IF Falsy(record.guestName) \/ Len(Trim(record.guestName)) = 0
  THEN "Missing or invalid guestName"
  ELSE IF Falsy(record.email) \/ ~EmailPattern(Trim(record.email))
  THEN "Missing or invalid email address"
  ELSE ""

\* record.seatNumber && ... && record.seatNumber.trim()
HasSeatRequest(record) == ~Falsy(record.seatNumber) /\ Len(Trim(record.seatNumber)) > 0

\* record.seatNumber.trim().toUpperCase()
RequestedSeat(record) == ToUpperCase(Trim(record.seatNumber))

\* The checks of a requested seat against the seats the store holds now
ImportSeatErrorOnStore(record, seatMap) ==
  LET seat == GetSeatEntry(seats, RequestedSeat(record))
  IN IF ~SeatNumberPattern(RequestedSeat(record)) THEN "Invalid seat number format"
     ELSE IF seat = <<>> THEN ErrSeatNotFound
     ELSE IF seat[1].isOccupied THEN ErrSeatOccupied
     ELSE ""

\* The checks of a requested seat against seatMap, the seats read before the
\* loop: "" when they pass
ImportSeatError(record, seatMap) ==
  LET seat == GetSeatEntry(seatMap, RequestedSeat(record))
  IN IF ~SeatNumberPattern(RequestedSeat(record)) THEN "Invalid seat number format"
     ELSE IF seat = <<>> THEN ErrSeatNotFound
     ELSE IF seat[1].isOccupied THEN ErrSeatOccupied
     ELSE ""

\* The body of the loop for records[i] (i counts from 0), ticketId being the
\* code generated for it and seatMap the seats read before the loop
ImportOne(S, record, ticketId, seatMap, i) ==
  IF ImportGuestError(record) # ""
  THEN ImportFailed(S, i, ImportGuestError(record), NULL, record)
  ELSE IF HasSeatRequest(record)
  THEN IF ImportSeatError(record, seatMap) # ""
       THEN ImportFailed(S, i, ImportSeatError(record, seatMap), RequestedSeat(record), record)
       ELSE ImportState(
              ImportCreateTicket(S.tickets, record, ticketId, StatusAssigned,
                                 RequestedSeat(record)),
              MemUpdateSeat(S.seats, RequestedSeat(record),
                            [isOccupied |-> TRUE, ticketId |-> ticketId]),
              S.imported + 1, S.seatsAssigned + 1, S.errors)
  ELSE ImportState(ImportCreateTicket(S.tickets, record, ticketId, StatusPending, NULL),
                   S.seats, S.imported + 1, S.seatsAssigned, S.errors)

RECURSIVE ImportLoop(_, _, _, _, _)
\* for (let i = 0; i < records.length; i++)
ImportLoop(S, records, ticketIds, seatMap, i) ==
  IF i >= Len(records) THEN S
  ELSE ImportLoop(ImportOne(S, records[i + 1], ticketIds[i + 1], seatMap, i),
                  records, ticketIds, seatMap, i + 1)

\* POST /api/tickets/import of parsed records; ticketIds are the codes the
\* generator returns for them
ImportRoute(records, ticketIds) ==
  /\ backend = "memory"
  /\ Quiescent
  /\ Len(ticketIds) = Len(records)
  /\ Len(tickets) + Len(records) <= MaxTickets
  /\ IF Len(records) = 0
     THEN /\ last' = Response("import", 400, "CSV file is empty or has no valid records", <<>>)
          /\ UNCHANGED <<tickets, seats>>
     ELSE IF records[1].guestName = NULL \/ records[1].email = NULL
     THEN /\ last' = Response("import", 400,
                              "CSV must contain 'guestName' and 'email' columns", <<>>)
          /\ UNCHANGED <<tickets, seats>>
     ELSE LET seatMap == seats
              S == ImportLoop(ImportState(tickets, seats, 0, 0, <<>>),
                              records, ticketIds, seatMap, 0)
          IN /\ tickets' = S.tickets
             /\ seats' = S.seats
             /\ last' = Response("import", 200, "",
                                 <<[imported |-> S.imported,
                                    seatsAssigned |-> S.seatsAssigned,
                                    errors |-> S.errors]>>)
  /\ UNCHANGED <<limiter, backend, operationLocks, ticketRows, seatRows, pc, req, loc, res, runq>>

\* tickets.filter(ticket => ticket.status === "pending"), in listing order
UnassignedTickets(tk) ==
  LET kept == KeptIndices({k \in 1..Len(tk) : tk[k].status = StatusPending}, Len(tk))
  IN [j \in 1..Len(kept) |-> tk[kept[j]]]

\* The unoccupied seat numbers in descending order
AvailableSeatsDescending(st) ==
  LET kept == KeptIndices({k \in 1..Len(st) : ~st[k].isOccupied}, Len(st))
      sorted == Sort([j \in 1..Len(kept) |-> st[kept[j]].seatNumber])
  IN [j \in 1..Len(sorted) |-> sorted[Len(sorted) + 1 - j]]

\* allSeats.filter(seat => !seat.isOccupied).map(seat => seat.seatNumber).sort()
AvailableSeats(st) ==
  LET kept == KeptIndices({k \in 1..Len(st) : ~st[k].isOccupied}, Len(st))
  IN Sort([j \in 1..Len(kept) |-> st[kept[j]].seatNumber])

RECURSIVE BulkAssignLoop(_, _, _, _, _)
\* for (let i = 0; i < maxAssignments; i++): updateSeat, then updateTicket
BulkAssignLoop(S, unassignedTickets, availableSeats, maxAssignments, i) ==
  IF i >= maxAssignments THEN S
  ELSE LET ticket == unassignedTickets[i + 1]
           seatNumber == availableSeats[i + 1]
       IN BulkAssignLoop(
            [tickets |-> MemUpdateTicket(S.tickets, ticket.id,
                           [seatNumber |-> seatNumber, status |-> StatusAssigned,
                            assignedAt |-> Now]),
             seats |-> MemUpdateSeat(S.seats, seatNumber,
                         [isOccupied |-> TRUE, ticketId |-> ticket.ticketId]),
             assigned |-> S.assigned + 1],
            unassignedTickets, availableSeats, maxAssignments, i + 1)

\* POST /api/tickets/bulk-assign-seats
BulkAssignRoute ==
  /\ backend = "memory"
  /\ Quiescent
  /\ LET unassignedTickets == UnassignedTickets(tickets)
         availableSeats == AvailableSeats(seats)
         maxAssignments == Min(Len(unassignedTickets), Len(availableSeats))
         S == BulkAssignLoop([tickets |-> tickets, seats |-> seats, assigned |-> 0],
                             unassignedTickets, availableSeats, maxAssignments, 0)
     IN IF Len(unassignedTickets) = 0
        THEN /\ last' = Response("bulkAssign", 200, "No unassigned tickets found",
                                 <<[assigned |-> 0]>>)
             /\ UNCHANGED <<tickets, seats>>
        ELSE IF Len(availableSeats) = 0
        THEN /\ last' = Response("bulkAssign", 400, "No available seats", <<>>)
             /\ UNCHANGED <<tickets, seats>>
        ELSE /\ tickets' = S.tickets
             /\ seats' = S.seats
             /\ last' = Response("bulkAssign", 200, "Successfully assigned seats",
                                 <<[assigned |-> S.assigned,
                                    remaining |-> Len(unassignedTickets) - S.assigned]>>)
  /\ UNCHANGED <<limiter, backend, operationLocks, ticketRows, seatRows, pc, req, loc, res, runq>>

----------------------------------------------------------------------------
(* POST /api/tickets/import on the Sheets store.  Every sheet read and      *)
(* write is a network call, one step each; the handler's reply is kept in   *)
(* last.                                                                    *)

ErrImportFailed == "Failed to import tickets"

ImportRequest(records, ticketIds) ==
  [kind |-> "import", records |-> records, ticketIds |-> ticketIds,
   ticketsAtCall |-> AllTickets, seatsAtCall |-> AllSeats]

\* The handler's variables at the head of the loop for records[i]
ImportLocals(seatMap, i, imported, seatsAssigned, errors) ==
  [seatMap |-> seatMap, i |-> i, imported |-> imported,
   seatsAssigned |-> seatsAssigned, errors |-> errors]

\* results.errors.push(...); continue
ImportPush(L, error, seat, record) ==
  ImportLocals(L.seatMap, L.i + 1, L.imported, L.seatsAssigned,
               Append(L.errors, ImportError(L.i, error, seat, record)))

\* results.imported++ at the end of the loop's body
ImportCounted(L) ==
  ImportLocals(L.seatMap, L.i + 1, L.imported + 1, L.seatsAssigned, L.errors)

RECURSIVE ImportSkip(_, _)
\* From the head of the loop: the records that fail the checks of guestName
\* and email are reported without an await, up to the first record that
\* reaches generateQRCode or the end of the records
ImportSkip(L, records) ==
  IF L.i >= Len(records) THEN L
  ELSE IF ImportGuestError(records[L.i + 1]) # ""
  THEN ImportSkip(ImportPush(L, ImportGuestError(records[L.i + 1]), NULL, records[L.i + 1]),
                  records)
  ELSE L

\* The handler runs from the head of the loop to its next await, or to
\* res.json(results)
ImportContinue(p, L) ==
  LET M == ImportSkip(L, req[p].records)
  IN /\ loc' = [loc EXCEPT ![p] = M]
     /\ IF M.i >= Len(req[p].records)
        THEN /\ pc' = [pc EXCEPT ![p] = "done"]
             /\ last' = Response("import", 200, "",
                                 <<[imported |-> M.imported,
                                    seatsAssigned |-> M.seatsAssigned,
                                    errors |-> M.errors]>>)
        ELSE /\ pc' = [pc EXCEPT ![p] = "import_generateQRCode"]
             /\ last' = last

\* catch (error) of the loop's body: the record is reported, the loop goes on
ImportCatch(p, message) ==
  ImportContinue(p, ImportPush(loc[p], message, NULL, req[p].records[loc[p].i + 1]))

\* The request, parsed, up to await storage.getAllSeats()
SheetsImportCall(p, records, ticketIds) ==
  /\ backend = "google-sheets"
  /\ NextCall(p)
  /\ \A q \in Procs : ~InFlight(q)
  /\ Len(ticketIds) = Len(records)
  /\ (Len(ticketRows) - 1) + Len(records) <= MaxTickets
  /\ req' = [req EXCEPT ![p] = ImportRequest(records, ticketIds)]
  /\ pc' = [pc EXCEPT ![p] = "import_getAllSeats"]
  /\ UNCHANGED <<limiter, backend, last, tickets, seats, operationLocks, ticketRows, seatRows, loc, res, runq>>

\* const allSeats = await storage.getAllSeats(); the checks of the records;
\* the loop is entered
SheetsImportGetAllSeats(p) ==
  /\ pc[p] = "import_getAllSeats"
  /\ LET records == req[p].records
     IN IF Len(records) = 0
        THEN /\ last' = Response("import", 400, "CSV file is empty or has no valid records", <<>>)
             /\ pc' = [pc EXCEPT ![p] = "done"]
             /\ loc' = loc
        ELSE IF records[1].guestName = NULL \/ records[1].email = NULL
        THEN /\ last' = Response("import", 400,
                                 "CSV must contain 'guestName' and 'email' columns", <<>>)
             /\ pc' = [pc EXCEPT ![p] = "done"]
             /\ loc' = loc
        ELSE ImportContinue(p, ImportLocals(SheetsGetAllSeats(seatRows), 0, 0, 0, <<>>))
  /\ UNCHANGED <<limiter, backend, tickets, seats, operationLocks, ticketRows, seatRows, req, res, runq>>

\* const qrCode = await generateQRCode(ticketId); the checks of the requested
\* seat; updateSeat or createTicket is called
SheetsImportQRCode(p) ==
  /\ pc[p] = "import_generateQRCode"
  /\ LET L == loc[p]
         record == req[p].records[L.i + 1]
     IN IF HasSeatRequest(record)
        THEN IF ImportSeatError(record, L.seatMap) # ""
             THEN ImportContinue(p, ImportPush(L, ImportSeatError(record, L.seatMap),
                                               RequestedSeat(record), record))
             ELSE /\ loc' = [loc EXCEPT ![p] =
                       Merge(L, [seatNumber |-> RequestedSeat(record),
                                 status |-> StatusAssigned])]
                  /\ pc' = [pc EXCEPT ![p] = "import_updateSeat_getSeat"]
                  /\ last' = last
        ELSE /\ loc' = [loc EXCEPT ![p] =
                  Merge(L, [seatNumber |-> NULL, status |-> StatusPending])]
             /\ pc' = [pc EXCEPT ![p] = "import_createTicket"]
             /\ last' = last
  /\ UNCHANGED <<limiter, backend, tickets, seats, operationLocks, ticketRows, seatRows, req, res, runq>>

\* updateSeat: const currentSeat = await this.getSeat(seatNumber)
SheetsImportUpdateSeatGetSeat(p) ==
  /\ pc[p] = "import_updateSeat_getSeat"
  /\ LET currentSeat == SheetsGetSeat(seatRows, loc[p].seatNumber)
         updates == [isOccupied |-> TRUE, ticketId |-> req[p].ticketIds[loc[p].i + 1]]
     IN IF currentSeat = <<>>
        THEN ImportCatch(p, ErrSeatNotFound)
        ELSE /\ loc' = [loc EXCEPT ![p] =
                  Merge(loc[p], [updatedSeat |-> Merge(currentSeat[1], updates)])]
             /\ pc' = [pc EXCEPT ![p] = "import_updateSeat_getRows"]
             /\ last' = last
  /\ UNCHANGED <<limiter, backend, tickets, seats, operationLocks, ticketRows, seatRows, req, res, runq>>

\* updateSeat: the second read, for the row index
SheetsImportUpdateSeatGetRows(p) ==
  /\ pc[p] = "import_updateSeat_getRows"
  /\ LET rowIndex == FindRowIndex(seatRows, 2, loc[p].seatNumber)
     IN IF rowIndex = 0
        THEN ImportCatch(p, "Seat not found in sheet")
        ELSE /\ loc' = [loc EXCEPT ![p] = Merge(loc[p], [rowIndex |-> rowIndex])]
             /\ pc' = [pc EXCEPT ![p] = "import_updateSeat_update"]
             /\ last' = last
  /\ UNCHANGED <<limiter, backend, tickets, seats, operationLocks, ticketRows, seatRows, req, res, runq>>

\* updateSeat: the row is overwritten; results.seatsAssigned++; createTicket
\* is called
SheetsImportUpdateSeatWrite(p) ==
  /\ pc[p] = "import_updateSeat_update"
  /\ seatRows' = WriteRow(seatRows, loc[p].rowIndex, seatToRow(loc[p].updatedSeat))
  /\ loc' = [loc EXCEPT ![p] =
       Merge(ImportLocals(loc[p].seatMap, loc[p].i, loc[p].imported,
                          loc[p].seatsAssigned + 1, loc[p].errors),
             [seatNumber |-> loc[p].seatNumber, status |-> loc[p].status])]
  /\ pc' = [pc EXCEPT ![p] = "import_createTicket"]
  /\ UNCHANGED <<limiter, backend, last, tickets, seats, operationLocks, ticketRows, req, res, runq>>

\* createTicket: the row is appended; with a seat, updateTicket is called
\* and requests its getTicket; without, results.imported++
SheetsImportCreateTicket(p) ==
  /\ pc[p] = "import_createTicket"
  /\ LET L == loc[p]
         record == req[p].records[L.i + 1]
         draft == InsertTicket(Substring(Trim(record.guestName), 100),
                               Substring(ToLowerCase(Trim(record.email)), 255),
                               req[p].ticketIds[L.i + 1], L.status, L.seatNumber)
         ticket == NewTicket(draft, UUID(Len(ticketRows)))
     IN /\ ticketRows' = SheetsCreateTicket(ticketRows, draft)
        /\ IF ~Falsy(L.seatNumber)
           THEN /\ loc' = [loc EXCEPT ![p] = Merge(L, [ticket |-> ticket])]
                /\ pc' = [pc EXCEPT ![p] = "import_updateTicket_getTicket"]
                /\ last' = last
           ELSE ImportContinue(p, ImportCounted(L))
  /\ UNCHANGED <<limiter, backend, tickets, seats, operationLocks, seatRows, req, res, runq>>

\* updateTicket: const currentTicket = await this.getTicket(id)
SheetsImportUpdateTicketGetTicket(p) ==
  /\ pc[p] = "import_updateTicket_getTicket"
  /\ LET currentTicket == SheetsGetTicket(ticketRows, loc[p].ticket.id)
     IN IF currentTicket = <<>>
        THEN ImportCatch(p, ErrTicketNotFound)
        ELSE /\ loc' = [loc EXCEPT ![p] =
                  Merge(loc[p], [updatedTicket |-> Merge(currentTicket[1], [assignedAt |-> Now])])]
             /\ pc' = [pc EXCEPT ![p] = "import_updateTicket_getRows"]
             /\ last' = last
  /\ UNCHANGED <<limiter, backend, tickets, seats, operationLocks, ticketRows, seatRows, req, res, runq>>

\* updateTicket: the second read, for the row index
SheetsImportUpdateTicketGetRows(p) ==
  /\ pc[p] = "import_updateTicket_getRows"
  /\ LET rowIndex == FindRowIndex(ticketRows, 1, loc[p].ticket.id)
     IN IF rowIndex = 0
        THEN ImportCatch(p, "Ticket not found in sheet")
        ELSE /\ loc' = [loc EXCEPT ![p] = Merge(loc[p], [rowIndex |-> rowIndex])]
             /\ pc' = [pc EXCEPT ![p] = "import_updateTicket_update"]
             /\ last' = last
  /\ UNCHANGED <<limiter, backend, tickets, seats, operationLocks, ticketRows, seatRows, req, res, runq>>

\* updateTicket: the row is overwritten; results.imported++
SheetsImportUpdateTicketWrite(p) ==
  /\ pc[p] = "import_updateTicket_update"
  /\ ticketRows' = WriteRow(ticketRows, loc[p].rowIndex, ticketToRow(loc[p].updatedTicket))
  /\ ImportContinue(p, ImportCounted(loc[p]))
  /\ UNCHANGED <<limiter, backend, tickets, seats, operationLocks, seatRows, req, res, runq>>

\* POST /api/tickets/import on the in-memory store.  The store's methods
\* settle without leaving the handler's turn; await generateQRCode(ticketId)
\* renders an image and lets other requests run.

\* The request, parsed, up to await storage.getAllSeats()
MemImportCall(p, records, ticketIds) ==
  /\ backend = "memory"
  /\ NextCall(p)
  /\ Len(ticketIds) = Len(records)
  /\ Len(tickets) + Len(records) <= MaxTickets
  /\ req' = [req EXCEPT ![p] = ImportRequest(records, ticketIds)]
  /\ pc' = [pc EXCEPT ![p] = "import_getAllSeats"]
  /\ UNCHANGED <<limiter, backend, last, tickets, seats, operationLocks, ticketRows, seatRows, loc, res, runq>>

\* const allSeats = await storage.getAllSeats(); seatMap; the checks of the
\* records; the loop is entered, up to its first await generateQRCode
MemImportGetAllSeats(p) ==
  /\ backend = "memory"
  /\ pc[p] = "import_getAllSeats"
  /\ LET records == req[p].records
     IN IF Len(records) = 0
        THEN /\ last' = Response("import", 400, "CSV file is empty or has no valid records", <<>>)
             /\ pc' = [pc EXCEPT ![p] = "done"]
             /\ loc' = loc
        ELSE IF records[1].guestName = NULL \/ records[1].email = NULL
        THEN /\ last' = Response("import", 400,
                                 "CSV must contain 'guestName' and 'email' columns", <<>>)
             /\ pc' = [pc EXCEPT ![p] = "done"]
             /\ loc' = loc
        ELSE ImportContinue(p, ImportLocals(seats, 0, 0, 0, <<>>))
  /\ UNCHANGED <<limiter, backend, tickets, seats, operationLocks, ticketRows, seatRows, req, res, runq>>

\* const qrCode = await generateQRCode(ticketId) resolves: the checks of the
\* requested seat against seatMap, updateSeat, createTicket, updateTicket,
\* results.imported++, and on to the next record's generateQRCode or to
\* res.json(results)
MemImportQRCode(p) ==
  /\ backend = "memory"
  /\ pc[p] = "import_generateQRCode"
  /\ LET L == loc[p]
         record == req[p].records[L.i + 1]
         ticketId == req[p].ticketIds[L.i + 1]
     IN IF HasSeatRequest(record)
        THEN IF ImportSeatError(record, L.seatMap) # ""
             THEN /\ ImportContinue(p, ImportPush(L, ImportSeatError(record, L.seatMap),
                                                  RequestedSeat(record), record))
                  /\ UNCHANGED <<tickets, seats>>
             ELSE /\ seats' = MemUpdateSeat(seats, RequestedSeat(record),
                                            [isOccupied |-> TRUE, ticketId |-> ticketId])
                  /\ tickets' = ImportCreateTicket(tickets, record, ticketId, StatusAssigned,
                                                   RequestedSeat(record))
                  /\ ImportContinue(p, ImportLocals(L.seatMap, L.i + 1, L.imported + 1,
                                                    L.seatsAssigned + 1, L.errors))
        ELSE /\ tickets' = ImportCreateTicket(tickets, record, ticketId, StatusPending, NULL)
             /\ seats' = seats
             /\ ImportContinue(p, ImportCounted(L))
  /\ UNCHANGED <<limiter, backend, operationLocks, ticketRows, seatRows, req, res, runq>>

\* The network calls of the loop's body
SheetsImportSteps ==
  {"import_updateSeat_getSeat", "import_updateSeat_getRows", "import_updateSeat_update",
   "import_createTicket", "import_updateTicket_getTicket", "import_updateTicket_getRows",
   "import_updateTicket_update"}

\* A network call of the loop's body fails: the await throws into the catch
\* of the body
SheetsImportCallFails(p) ==
  /\ pc[p] \in SheetsImportSteps
  /\ ImportCatch(p, ErrNetwork)
  /\ UNCHANGED <<limiter, backend, tickets, seats, operationLocks, ticketRows, seatRows, req, res, runq>>

\* getAllSeats fails: the throw ends in the handler's own catch
SheetsImportGetAllSeatsFails(p) ==
  /\ pc[p] = "import_getAllSeats"
  /\ last' = Response("import", 500, ErrImportFailed, <<>>)
  /\ pc' = [pc EXCEPT ![p] = "done"]
  /\ UNCHANGED <<limiter, backend, tickets, seats, operationLocks, ticketRows, seatRows, req, loc, res, runq>>

----------------------------------------------------------------------------
(* updateTicket and updateSeat called directly on the store *)

\* Partial<Ticket> and Partial<Seat> values: the check-in route's, the
\* import route's, and single fields of a seat
TicketUpdates ==
  {[status |-> StatusCheckedIn, checkedInAt |-> Now],
   [assignedAt |-> Now]}

SeatUpdates ==
  {[isOccupied |-> TRUE],
   [ticketId |-> TicketCode(2)]}

\* A call of a store method: the message thrown, or "" when the call
\* returned, is kept in last
MemUpdateTicketCall(id, updates) ==
  /\ backend = "memory"
  /\ IF MemHasTicket(tickets, id)
     THEN /\ tickets' = MemUpdateTicket(tickets, id, updates)
          /\ last' = Response("updateTicket", 0, "", <<>>)
     ELSE /\ tickets' = tickets
          /\ last' = Response("updateTicket", 0, ErrTicketNotFound, <<>>)
  /\ UNCHANGED <<limiter, backend, seats, operationLocks, ticketRows, seatRows, pc, req, loc, res, runq>>

MemUpdateSeatCall(seatNumber, updates) ==
  /\ backend = "memory"
  /\ IF MemHasSeat(seats, seatNumber)
     THEN /\ seats' = MemUpdateSeat(seats, seatNumber, updates)
          /\ last' = Response("updateSeat", 0, "", <<>>)
     ELSE /\ seats' = seats
          /\ last' = Response("updateSeat", 0, ErrSeatNotFound, <<>>)
  /\ UNCHANGED <<limiter, backend, tickets, operationLocks, ticketRows, seatRows, pc, req, loc, res, runq>>

\* The same on the Sheets store, where the call first requests the record
UpdateRequest(kind, id, seatNumber, updates) ==
  [kind |-> kind, ticketId |-> id, seatNumber |-> seatNumber, updates |-> updates,
   recordAtCall |-> IF kind = "updateSeat" THEN SeatOf(seatNumber) ELSE TicketOf(id),
   concurrent |-> {q \in Procs : InFlight(q)}]

SheetsUpdateTicketCall(p, id, updates) ==
  /\ backend = "google-sheets"
  /\ NextCall(p)
  /\ p <= MaxCalls
  /\ req' = [req EXCEPT ![p] = UpdateRequest("updateTicket", id, NULL, updates)]
  /\ loc' = [loc EXCEPT ![p] = [updates |-> updates]]
  /\ pc' = [pc EXCEPT ![p] = "updateTicket_getTicket"]
  /\ UNCHANGED <<limiter, backend, last, tickets, seats, operationLocks, ticketRows, seatRows, res, runq>>

SheetsUpdateSeatCall(p, seatNumber, updates) ==
  /\ backend = "google-sheets"
  /\ NextCall(p)
  /\ p <= MaxCalls
  /\ req' = [req EXCEPT ![p] = UpdateRequest("updateSeat", NULL, seatNumber, updates)]
  /\ loc' = [loc EXCEPT ![p] = [updates |-> updates]]
  /\ pc' = [pc EXCEPT ![p] = "updateSeat_getSeat"]
  /\ UNCHANGED <<limiter, backend, last, tickets, seats, operationLocks, ticketRows, seatRows, res, runq>>

----------------------------------------------------------------------------
(* The venue layout generator and the seat-number validators, called as     *)
(* functions.  Neither awaits: a call is one step.                          *)

VenueConfigs == {defaultVenueConfig, smallVenueConfig, largeVenueConfig}

SeatNumbersOf(seatData) == {seatData[k].seatNumber : k \in 1..Len(seatData)}

\* Strings handed to the validators: every seat number of the three
\* layouts, and a row, a separator and an index put together
SeatNumberCandidates ==
  UNION {SeatNumbersOf(generateSeats(config)) : config \in VenueConfigs}
  \cup {row \o sep \o index :
          row \in {<<>>, <<"A">>, <<"E">>, <<"F">>, <<"J">>, <<"K">>, <<"O">>, <<"P">>,
                    <<"a">>, <<"A", "A">>},
          sep \in {<<>>, <<"-">>, <<"-", "-">>, <<" ">>},
          index \in {<<>>, <<"0">>, <<"1">>, <<"0", "0">>, <<"0", "1">>, <<"1", "5">>,
                      <<"1", "6">>, <<"2", "0">>, <<"2", "1">>, <<"3", "0">>, <<"3", "1">>,
                      <<"0", "0", "0">>, <<"0", "0", "1">>, <<"0", "3", "0">>,
                      <<"0", "3", "1">>, <<"1", "a">>}}

\* generateSeats(config): the call returns the descriptors
GenerateSeatsCall(p, config) ==
  /\ NextCall(p)
  /\ p <= MaxCalls
  /\ req' = [req EXCEPT ![p] = [kind |-> "generateSeats", config |-> config]]
  /\ loc' = [loc EXCEPT ![p] = [seats |-> generateSeats(config)]]
  /\ res' = [res EXCEPT ![p] = [success |-> TRUE, error |-> "", ticket |-> <<>>]]
  /\ pc' = [pc EXCEPT ![p] = "done"]
  /\ UNCHANGED <<limiter, backend, last, tickets, seats, operationLocks, ticketRows, seatRows, runq>>

\* isValidSeatNumber(seatNumber, config): the boolean returned is kept in last
IsValidSeatNumberCall(seatNumber, config) ==
  /\ last' = Response("isValidSeatNumber", 0, "",
                <<[seatNumber |-> seatNumber, config |-> config.name,
                   valid |-> isValidSeatNumber(seatNumber, config)]>>)
  /\ UNCHANGED <<limiter, backend, tickets, seats, operationLocks, ticketRows, seatRows, pc, req, loc,
                 res, runq>>

\* validateSeatNumber(seatNumber)
ValidateSeatNumberCall(seatNumber) ==
  /\ last' = Response("validateSeatNumber", 0, "",
                <<[seatNumber |-> seatNumber, config |-> defaultVenueConfig.name,
                   valid |-> validateSeatNumber(seatNumber)]>>)
  /\ UNCHANGED <<limiter, backend, tickets, seats, operationLocks, ticketRows, seatRows, pc, req, loc,
                 res, runq>>

----------------------------------------------------------------------------
(* The rate limiter of the routes: one Map for all endpoints, keyed by the  *)
(* client's address.                                                        *)

ClientIds == {"10.0.0.1", "10.0.0.2"}

\* app.post(path, rateLimit(maxRequests, windowMs), ...)
RateLimitedEndpoints ==
  {[route |-> "import", maxRequests |-> 5, windowMs |-> 60000],
   [route |-> "bulkAssign", maxRequests |-> 2, windowMs |-> 300000]}

\* Clean up expired entries
RateLimitCleanUp(store, now) ==
  [clientId \in DOMAIN store |->
     IF store[clientId] # <<>> /\ now > store[clientId][1].resetTime
     THEN <<>> ELSE store[clientId]]

\* The middleware rateLimit(maxRequests, windowMs) returns, run for a request
\* of clientId at time now: the Map it leaves and whether next() was called
rateLimit(store, now, clientId, maxRequests, windowMs) ==
  LET cleaned == RateLimitCleanUp(store, now)
      clientData == cleaned[clientId]
  IN IF clientData = <<>> \/ now > clientData[1].resetTime
     THEN [store |-> [cleaned EXCEPT ![clientId] =
                        <<[count |-> 1, resetTime |-> now + windowMs]>>],
           next |-> TRUE]
     ELSE IF clientData[1].count < maxRequests
     THEN [store |-> [cleaned EXCEPT ![clientId] =
                        <<[count |-> clientData[1].count + 1,
                           resetTime |-> clientData[1].resetTime]>>],
           next |-> TRUE]
     ELSE [store |-> cleaned, next |-> FALSE]

\* A request of clientId reaches the rate limiter of endpoint
RateLimitCall(clientId, endpoint) ==
  /\ Len(rateLimited) < MaxRequests
  /\ LET r == rateLimit(rateLimitStore, clock, clientId, endpoint.maxRequests,
                        endpoint.windowMs)
     IN /\ rateLimitStore' = r.store
        /\ rateLimited' = Append(rateLimited,
                                 [clientId |-> clientId, endpoint |-> endpoint,
                                  at |-> clock, next |-> r.next])
        /\ last' = IF r.next THEN last
                   ELSE Response(endpoint.route, 429,
                                 "Too many requests. Please try again later.", <<>>)
  /\ clock' = clock
  /\ UNCHANGED <<backend, tickets, seats, operationLocks, ticketRows, seatRows, pc, req, loc,
                 res, runq>>

\* Time passes
Tick ==
  /\ clock < MaxTicks * 40000
  /\ clock' = clock + 40000
  /\ UNCHANGED <<backend, tickets, seats, operationLocks, ticketRows, seatRows, pc, req, loc,
                 res, runq, last, rateLimitStore, rateLimited>>

----------------------------------------------------------------------------
(* The CSV sanitizer, called as a function *)

\* /^[=+\-@]/
CSVInjectionChars == {"=", "+", "-", "@"}

\* field.replace(/^[=+\-@]/, '').trim()
sanitizeCSVField(field) ==
  Trim(IF field # <<>> /\ field[1] \in CSVInjectionChars THEN Tail(field) ELSE field)

\* Fields handed to the sanitizer: the four characters, the blank and a letter
CSVFields == UNION {[1..n -> CSVInjectionChars \cup {" ", "c"}] : n \in 0..MaxFieldLen}

\* sanitizeCSVField(field): the string returned is kept in last
SanitizeCSVFieldCall(field) ==
  /\ last' = Response("sanitizeCSVField", 0, "",
                      <<[field |-> field, result |-> sanitizeCSVField(field)]>>)
  /\ UNCHANGED <<limiter, backend, tickets, seats, operationLocks, ticketRows, seatRows, pc,
                 req, loc, res, runq>>

----------------------------------------------------------------------------
(* Specifications *)

\* new MemStorage(): the seats are seeded, no ticket exists
InitMemStorage ==
  /\ backend = "memory"
  /\ tickets = <<>>
  /\ seats = initializeSeats
  /\ operationLocks = <<>>
  /\ ticketRows = <<>>
  /\ seatRows = <<>>

\* new GoogleSheetsStorage(...) on an empty document, once initializeSheets
\* has created both sheets and seeded the seats
InitSheetsStorage ==
  /\ backend = "google-sheets"
  /\ tickets = <<>>
  /\ seats = <<>>
  /\ operationLocks = <<>>
  /\ ticketRows = <<TicketsHeader>>
  /\ seatRows = <<SeatsHeader>> \o SeedSeatRows

InitCalls ==
  /\ pc = [p \in Procs |-> "idle"]
  /\ req = [p \in Procs |-> NoRequest]
  /\ loc = [p \in Procs |-> NoLocals]
  /\ res = [p \in Procs |-> NoResult]
  /\ runq = <<>>
  /\ last = NoResponse
  /\ rateLimitStore = [clientId \in ClientIds |-> <<>>]
  /\ clock = 0
  /\ rateLimited = <<>>

InitMem == InitMemStorage /\ InitCalls
InitSheets == InitSheetsStorage /\ InitCalls
Init == InitMem \/ InitSheets

\* Claims on the in-memory store, running concurrently, over tickets created
\* without status or seat
NextMemClaims ==
  \/ MemCreateTicketRoute(PlainTicketData, TicketCode(Len(tickets) + 1))
  \/ \E p \in Procs, id \in TicketIdArgs, s \in SeatArgs : MemAssignSeatCall(p, id, s)
  \/ \E p \in Procs : MemAssignSeatAfterLock(p)
  \/ \E p \in Procs : MemAssignSeatReturn(p)

SpecMemClaims == InitMem /\ [][NextMemClaims]_vars

\* Claims on the in-memory store racing for seats, each for its own ticket
NextMemRace ==
  \/ MemCreateTicketRoute(PlainTicketData, TicketCode(Len(tickets) + 1))
  \/ \E p \in Procs, s \in VenueSeatNumbers : MemAssignSeatRace(p, s)
  \/ \E p \in Procs : MemAssignSeatAfterLock(p)
  \/ \E p \in Procs : MemAssignSeatReturn(p)

SpecMemRace == InitMem /\ [][NextMemRace]_vars

\* The same, the microtask queue being drained: a continuation at its head runs
SpecMemRaceFair ==
  /\ SpecMemRace
  /\ \A p \in Procs : WF_vars(MemAssignSeatAfterLock(p)) /\ WF_vars(MemAssignSeatReturn(p))

\* Claims on the Sheets store, running concurrently
NextSheetsClaims ==
  \/ SheetsCreateTicketRoute(PlainTicketData, TicketCode(Len(ticketRows)))
  \/ \E p \in Procs, id \in TicketIdArgs, s \in SeatArgs : SheetsAssignSeatCall(p, id, s)
  \/ \E p \in Procs : SheetsClaimGetTicket(p)
  \/ \E p \in Procs : SheetsClaimGetSeat(p)
  \/ \E p \in Procs : SheetsUpdateSeatGetSeat(p)
  \/ \E p \in Procs : SheetsUpdateSeatGetRows(p)
  \/ \E p \in Procs : SheetsUpdateSeatWrite(p)
  \/ \E p \in Procs : SheetsUpdateTicketGetTicket(p)
  \/ \E p \in Procs : SheetsUpdateTicketGetRows(p)
  \/ \E p \in Procs : SheetsUpdateTicketWrite(p)

SpecSheetsClaims == InitSheets /\ [][NextSheetsClaims]_vars

\* Claims on either store
SpecClaims == Init /\ [][NextMemClaims \/ NextSheetsClaims]_vars

\* Claims on the Sheets store whose network calls may fail
SpecSheetsFaults ==
  InitSheets /\ [][NextSheetsClaims \/ \E p \in Procs : SheetsClaimCallFails(p)]_vars

\* Claims and check-ins on the Sheets store, running concurrently
NextSheetsDesk ==
  \/ SheetsCreateTicketRoute(PlainTicketData, TicketCode(Len(ticketRows)))
  \/ \E p \in Procs, id \in TicketIdArgs, s \in VenueSeatNumbers :
       SheetsAssignSeatCall(p, id, s)
  \/ \E p \in Procs : SheetsClaimGetTicket(p)
  \/ \E p \in Procs : SheetsClaimGetSeat(p)
  \/ \E p \in Procs : SheetsUpdateSeatGetSeat(p)
  \/ \E p \in Procs : SheetsUpdateSeatGetRows(p)
  \/ \E p \in Procs : SheetsUpdateSeatWrite(p)
  \/ \E p \in Procs : SheetsUpdateTicketGetTicket(p)
  \/ \E p \in Procs : SheetsUpdateTicketGetRows(p)
  \/ \E p \in Procs : SheetsUpdateTicketWrite(p)
  \/ \E p \in Procs, id \in TicketIdArgs : SheetsCheckInCall(p, id)
  \/ \E p \in Procs : SheetsCheckInGetTicket(p)

SpecSheetsDesk == InitSheets /\ [][NextSheetsDesk]_vars

\* A seat number the route's pattern admits and the modelled venue lacks
AbsentSeat == <<"A", "-", "2", "0">>

\* Bodies of POST /api/tickets: the frontend's, one with a padded name, one
\* with a blank name, and one that carries a status and a seat
TicketDataArgs ==
  {PlainTicketData,
   TicketData(<<" ", "G", " ">>, GuestEmail, NULL, NULL),
   TicketData(<<" ">>, GuestEmail, NULL, NULL),
   TicketData(<<"G">>, GuestEmail, StatusAssigned, <<"A", "-", "0", "1">>)}

\* Seat numbers a request may name
RouteSeatArgs == SeatArgs \cup {AbsentSeat, <<>>}

\* Records of an imported file
ImportRecordArgs ==
  {ImportRecord(<<"G">>, GuestEmail, s) :
     s \in VenueSeatNumbers \cup {NULL, <<"a", "-", "0", "1">>, UnknownSeat, AbsentSeat}}
  \cup {ImportRecord(<<>>, GuestEmail, NULL), ImportRecord(<<"G">>, <<"g">>, NULL)}

ImportArgs == {<<>>} \cup UNION {[1..n -> ImportRecordArgs] : n \in 1..MaxImportRecords}

\* The requests of the routes, one at a time, on the in-memory store
NextRoutes ==
  \/ \E d \in TicketDataArgs, c \in TicketCodes : MemCreateTicketRoute(d, c)
  \/ \E id \in TicketIdArgs, s \in RouteSeatArgs : AssignSeatRoute(id, s)
  \/ \E id \in TicketIdArgs : CheckInRoute(id)
  \/ \E records \in ImportArgs :
       \E ticketIds \in [1..Len(records) -> TicketCodes] : ImportRoute(records, ticketIds)
  \/ BulkAssignRoute

SpecRoutes == InitMem /\ [][NextRoutes]_vars

\* The codes generated for the records of an import, no two equal and none
\* equal to the code of a ticket of NextSheetsImport
FreshTicketCodes(n) == [k \in 1..n |-> TicketCode(Len(ticketRows) - 1 + k)]

\* No import has been requested
NoImportYet == \A q \in Procs : req[q].kind # "import"

\* One import on the Sheets store, after tickets were created and a seat was
\* claimed, one request at a time
NextSheetsImport ==
  \/ Quiescent /\ SheetsCreateTicketRoute(PlainTicketData, TicketCode(Len(ticketRows)))
  \/ \E id \in TicketIdArgs, s \in VenueSeatNumbers :
       Quiescent /\ SheetsAssignSeatCall(1, id, s)
  \/ \E p \in Procs : SheetsClaimGetTicket(p)
  \/ \E p \in Procs : SheetsClaimGetSeat(p)
  \/ \E p \in Procs : SheetsUpdateSeatGetSeat(p)
  \/ \E p \in Procs : SheetsUpdateSeatGetRows(p)
  \/ \E p \in Procs : SheetsUpdateSeatWrite(p)
  \/ \E p \in Procs : SheetsUpdateTicketGetTicket(p)
  \/ \E p \in Procs : SheetsUpdateTicketGetRows(p)
  \/ \E p \in Procs : SheetsUpdateTicketWrite(p)
  \/ /\ NoImportYet /\ Quiescent
     /\ \E p \in Procs, records \in ImportArgs :
          SheetsImportCall(p, records, FreshTicketCodes(Len(records)))
  \/ \E p \in Procs : SheetsImportGetAllSeats(p)
  \/ \E p \in Procs : SheetsImportQRCode(p)
  \/ \E p \in Procs : SheetsImportUpdateSeatGetSeat(p)
  \/ \E p \in Procs : SheetsImportUpdateSeatGetRows(p)
  \/ \E p \in Procs : SheetsImportUpdateSeatWrite(p)
  \/ \E p \in Procs : SheetsImportCreateTicket(p)
  \/ \E p \in Procs : SheetsImportUpdateTicketGetTicket(p)
  \/ \E p \in Procs : SheetsImportUpdateTicketGetRows(p)
  \/ \E p \in Procs : SheetsImportUpdateTicketWrite(p)

SpecSheetsImport == InitSheets /\ [][NextSheetsImport]_vars

\* The same, with network calls that may fail
NextSheetsImportFaults ==
  \/ NextSheetsImport
  \/ \E p \in Procs : SheetsImportCallFails(p)
  \/ \E p \in Procs : SheetsImportGetAllSeatsFails(p)

SpecSheetsImportFaults == InitSheets /\ [][NextSheetsImportFaults]_vars

\* Tickets created on either store, with any of the bodies, among claims
\* and check-ins
NextCreate ==
  \/ \E d \in TicketDataArgs : MemCreateTicketRoute(d, TicketCode(Len(tickets) + 1))
  \/ \E id \in TicketIdArgs, s \in VenueSeatNumbers : AssignSeatRoute(id, s)
  \/ \E id \in TicketIdArgs : CheckInRoute(id)
  \/ \E d \in TicketDataArgs : SheetsCreateTicketRoute(d, TicketCode(Len(ticketRows)))
  \/ \E id \in TicketIdArgs, s \in VenueSeatNumbers :
       Quiescent /\ SheetsAssignSeatCall(1, id, s)
  \/ \E p \in Procs : SheetsClaimGetTicket(p)
  \/ \E p \in Procs : SheetsClaimGetSeat(p)
  \/ \E p \in Procs : SheetsUpdateSeatGetSeat(p)
  \/ \E p \in Procs : SheetsUpdateSeatGetRows(p)
  \/ \E p \in Procs : SheetsUpdateSeatWrite(p)
  \/ \E p \in Procs : SheetsUpdateTicketGetTicket(p)
  \/ \E p \in Procs : SheetsUpdateTicketGetRows(p)
  \/ \E p \in Procs : SheetsUpdateTicketWrite(p)

SpecCreate == Init /\ [][NextCreate]_vars

\* The generator is called, and called again with the same configuration;
\* one of the validators is called, isValidSeatNumber with that configuration
NextLayout ==
  \/ \E config \in VenueConfigs : GenerateSeatsCall(1, config)
  \/ pc[1] = "done" /\ GenerateSeatsCall(2, req[1].config)
  \/ /\ pc[1] = "done"
     /\ last = NoResponse
     /\ \E seatNumber \in SeatNumberCandidates : IsValidSeatNumberCall(seatNumber, req[1].config)
  \/ /\ last = NoResponse
     /\ \E seatNumber \in SeatNumberCandidates : ValidateSeatNumberCall(seatNumber)

SpecLayout == InitMem /\ [][NextLayout]_vars

\* Claims on the in-memory store for any ticket and seat, made while earlier
\* ones are in flight, over tickets created before the first claim
NextMemWaiters ==
  \/ /\ \A p \in Procs : pc[p] = "idle"
     /\ MemCreateTicketRoute(PlainTicketData, TicketCode(Len(tickets) + 1))
  \/ \E p \in Procs, id \in TicketIdArgs, s \in VenueSeatNumbers : MemAssignSeat(p, id, s)
  \/ \E p \in Procs : MemAssignSeatAfterLock(p)
  \/ \E p \in Procs : MemAssignSeatReturn(p)

SpecMemWaiters == InitMem /\ [][NextMemWaiters]_vars

\* assignSeatAtomically called on either store with any ticket and seat, each
\* call made when the one before has returned
NextClaimsInTurn ==
  \/ MemCreateTicketRoute(PlainTicketData, TicketCode(Len(tickets) + 1))
  \/ /\ Quiescent
     /\ \E p \in Procs, id \in TicketIdArgs, s \in SeatArgs : MemAssignSeatCall(p, id, s)
  \/ \E p \in Procs : MemAssignSeatReturn(p)
  \/ Quiescent /\ SheetsCreateTicketRoute(PlainTicketData, TicketCode(Len(ticketRows)))
  \/ /\ Quiescent
     /\ \E p \in Procs, id \in TicketIdArgs, s \in SeatArgs : SheetsAssignSeatCall(p, id, s)
  \/ \E p \in Procs :
       \/ SheetsClaimGetTicket(p)
       \/ SheetsClaimGetSeat(p)
       \/ SheetsUpdateSeatGetSeat(p)
       \/ SheetsUpdateSeatGetRows(p)
       \/ SheetsUpdateSeatWrite(p)
       \/ SheetsUpdateTicketGetTicket(p)
       \/ SheetsUpdateTicketGetRows(p)
       \/ SheetsUpdateTicketWrite(p)

SpecClaimsInTurn == Init /\ [][NextClaimsInTurn]_vars

\* Files whose records are well formed and ask for a seat of the venue or none
SeatImportArgs ==
  UNION {[1..n -> {ImportRecord(<<"G">>, GuestEmail, s) : s \in VenueSeatNumbers \cup {NULL}}] :
           n \in 1..MaxImportRecords}

\* One import on the in-memory store with claims arriving once it has been
\* requested: before it reads the seats, or while it waits for generateQRCode
NextMemImportRace ==
  \/ /\ \A p \in Procs : pc[p] = "idle"
     /\ MemCreateTicketRoute(PlainTicketData, TicketCode(Len(tickets) + 1))
  \/ /\ ~NoImportYet
     /\ \E p \in Procs, id \in TicketIdArgs, s \in VenueSeatNumbers : MemAssignSeat(p, id, s)
  \/ \E p \in Procs : MemAssignSeatAfterLock(p)
  \/ \E p \in Procs : MemAssignSeatReturn(p)
  \/ /\ NoImportYet
     /\ \E p \in Procs, records \in SeatImportArgs :
          MemImportCall(p, records, [k \in 1..Len(records) |-> TicketCode(Len(tickets) + k)])
  \/ \E p \in Procs : MemImportGetAllSeats(p)
  \/ \E p \in Procs : MemImportQRCode(p)

SpecMemImportRace == InitMem /\ [][NextMemImportRace]_vars

----------------------------------------------------------------------------
(* Construction of the store.  new MemStorage() seeds its seats before it   *)
(* returns.  new GoogleSheetsStorage(config) calls this.initializeSheets()  *)
(* without awaiting it and returns: the calls of initializeSheets run, one  *)
(* network call a step, while the exported storage object is in use.  The   *)
(* document starts without sheets.  Call 1 is the constructor.              *)

\* The document has the sheet: addSheet has been answered
TicketsSheetExists ==
  pc[1] \notin {"idle", "ensureTickets_get", "ensureTickets_addSheet"}
SeatsSheetExists ==
  pc[1] \in {"ensureSeats_headers", "seedSeats_get", "seedSeats_update", "done"}

\* No store has been constructed
InitStartup ==
  /\ backend \in {"memory", "google-sheets"}
  /\ tickets = <<>>
  /\ seats = <<>>
  /\ operationLocks = <<>>
  /\ ticketRows = <<>>
  /\ seatRows = <<>>
  /\ InitCalls

\* new MemStorage() with VENUE_TYPE naming config
MemStorageConstructor(config) ==
  /\ backend = "memory"
  /\ pc[1] = "idle"
  /\ seats' = initializeSeatsOf(config)
  /\ req' = [req EXCEPT ![1] = [kind |-> "constructor", config |-> config]]
  /\ pc' = [pc EXCEPT ![1] = "done"]
  /\ UNCHANGED <<limiter, backend, last, tickets, operationLocks, ticketRows, seatRows, loc, res, runq>>

\* new GoogleSheetsStorage(...) with VENUE_TYPE naming config: up to the
\* first await of initializeSheets
SheetsStorageConstructor(config) ==
  /\ backend = "google-sheets"
  /\ pc[1] = "idle"
  /\ req' = [req EXCEPT ![1] = [kind |-> "constructor", config |-> config]]
  /\ pc' = [pc EXCEPT ![1] = "ensureTickets_get"]
  /\ UNCHANGED <<limiter, backend, last, tickets, seats, operationLocks, ticketRows, seatRows, loc, res, runq>>

\* ensureSheetExists: spreadsheets.get finds no sheet of the name
EnsureSheetExistsGet ==
  /\ pc[1] \in {"ensureTickets_get", "ensureSeats_get"}
  /\ pc' = [pc EXCEPT ![1] = IF pc[1] = "ensureTickets_get" THEN "ensureTickets_addSheet"
                              ELSE "ensureSeats_addSheet"]
  /\ UNCHANGED <<limiter, backend, last, tickets, seats, operationLocks, ticketRows, seatRows, req, loc,
                 res, runq>>

\* ensureSheetExists: batchUpdate addSheet
EnsureSheetExistsAddSheet ==
  /\ pc[1] \in {"ensureTickets_addSheet", "ensureSeats_addSheet"}
  /\ pc' = [pc EXCEPT ![1] = IF pc[1] = "ensureTickets_addSheet" THEN "ensureTickets_headers"
                              ELSE "ensureSeats_headers"]
  /\ UNCHANGED <<limiter, backend, last, tickets, seats, operationLocks, ticketRows, seatRows, req, loc,
                 res, runq>>

\* ensureSheetExists: values.update writes the headers into row 1
EnsureSheetExistsHeaders ==
  /\ pc[1] \in {"ensureTickets_headers", "ensureSeats_headers"}
  /\ IF pc[1] = "ensureTickets_headers"
     THEN /\ ticketRows' = <<TicketsHeader>> \o SubSeq(ticketRows, 2, Len(ticketRows))
          /\ seatRows' = seatRows
          /\ pc' = [pc EXCEPT ![1] = "ensureSeats_get"]
     ELSE /\ seatRows' = <<SeatsHeader>> \o SubSeq(seatRows, 2, Len(seatRows))
          /\ ticketRows' = ticketRows
          /\ pc' = [pc EXCEPT ![1] = "seedSeats_get"]
  /\ UNCHANGED <<limiter, backend, last, tickets, seats, operationLocks, req, loc, res, runq>>

\* initializeSeatsIfEmpty: values.get of A2:A2
InitializeSeatsIfEmptyGet ==
  /\ pc[1] = "seedSeats_get"
  /\ pc' = [pc EXCEPT ![1] = IF Len(seatRows) < 2 THEN "seedSeats_update" ELSE "done"]
  /\ UNCHANGED <<limiter, backend, last, tickets, seats, operationLocks, ticketRows, seatRows, req, loc,
                 res, runq>>

\* initializeSeatsIfEmpty: values.update of A2:F(seatData.length + 1)
InitializeSeatsIfEmptyUpdate ==
  /\ pc[1] = "seedSeats_update"
  /\ seatRows' = <<seatRows[1]>> \o HardCodedSeedRows
                   \o SubSeq(seatRows, Len(HardCodedSeedRows) + 2, Len(seatRows))
  /\ pc' = [pc EXCEPT ![1] = "done"]
  /\ UNCHANGED <<limiter, backend, last, tickets, seats, operationLocks, ticketRows, req, loc, res, runq>>

\* storage.getSeat(seatNumber) by a client of the constructed store: what it
\* returns is kept in last, status 500 standing for a throw
GetSeatCall(seatNumber) ==
  /\ pc[1] # "idle"
  /\ last' =
       IF backend = "memory"
       THEN Response("getSeat", 200, "",
                     <<[seatNumber |-> seatNumber, found |-> GetSeatEntry(seats, seatNumber)]>>)
       ELSE IF ~SeatsSheetExists
       THEN Response("getSeat", 500, ErrNetwork, <<[seatNumber |-> seatNumber, found |-> <<>>]>>)
       ELSE Response("getSeat", 200, "",
                     <<[seatNumber |-> seatNumber,
                        found |-> SheetsGetSeat(seatRows, seatNumber)]>>)
  /\ UNCHANGED <<limiter, backend, tickets, seats, operationLocks, ticketRows, seatRows, pc, req, loc,
                 res, runq>>

\* The getSeat of a claim made while the store starts
StartupClaimGetSeat(p) ==
  IF SeatsSheetExists
  THEN SheetsClaimGetSeat(p)
  ELSE /\ pc[p] = "claim_getSeat"
       /\ SheetsClaimCatch(p)
       /\ UNCHANGED <<limiter, backend, last, tickets, seats, operationLocks, ticketRows, seatRows, req,
                      runq>>

\* Seat numbers clients ask for while the store starts: the first and the
\* last seat of each layout and one of none
StartupSeatArgs ==
  {generateSeats(config)[1].seatNumber : config \in VenueConfigs}
  \cup {generateSeats(config)[Len(generateSeats(config))].seatNumber : config \in VenueConfigs}
  \cup {UnknownSeat}

\* A store is constructed for one of the venue configurations; on the
\* Sheets store a ticket is created once the Tickets sheet has its headers
\* and clients read and claim seats from the moment the constructor returns
NextStartup ==
  \/ \E config \in VenueConfigs : MemStorageConstructor(config)
  \/ \E config \in VenueConfigs : SheetsStorageConstructor(config)
  \/ EnsureSheetExistsGet
  \/ EnsureSheetExistsAddSheet
  \/ EnsureSheetExistsHeaders
  \/ InitializeSeatsIfEmptyGet
  \/ InitializeSeatsIfEmptyUpdate
  \/ last = NoResponse /\ \E s \in StartupSeatArgs : GetSeatCall(s)
  \/ /\ Len(ticketRows) = 1 /\ ticketRows[1] = TicketsHeader
     /\ SheetsCreateTicketRoute(PlainTicketData, TicketCode(1))
  \/ /\ Len(ticketRows) = 2
     /\ \E s \in StartupSeatArgs : SheetsAssignSeatCall(2, UUID(1), s)
  \/ SheetsClaimGetTicket(2)
  \/ StartupClaimGetSeat(2)
  \/ SheetsUpdateSeatGetSeat(2)
  \/ SheetsUpdateSeatGetRows(2)
  \/ SheetsUpdateSeatWrite(2)
  \/ SheetsUpdateTicketGetTicket(2)
  \/ SheetsUpdateTicketGetRows(2)
  \/ SheetsUpdateTicketWrite(2)

SpecStartup == InitStartup /\ [][NextStartup]_vars

\* Every operation that writes a seat: claims, check-ins, an import and
\* bulk-assign after tickets were created, requests served one at a time on
\* the in-memory store, and on the Sheets store claims, then an import, then
\* check-ins
NextSeats ==
  \/ MemCreateTicketRoute(PlainTicketData, TicketCode(Len(tickets) + 1))
  \/ \E id \in TicketIdArgs, s \in SeatArgs : AssignSeatRoute(id, s)
  \/ \E id \in TicketIdArgs : CheckInRoute(id)
  \/ \E records \in SeatImportArgs :
       ImportRoute(records, [k \in 1..Len(records) |-> TicketCode(Len(tickets) + k)])
  \/ BulkAssignRoute
  \/ NextSheetsImport
  \/ /\ Quiescent /\ ~NoImportYet
     /\ \E p \in Procs, id \in TicketIdArgs : SheetsCheckInCall(p, id)
  \/ \E p \in Procs : SheetsCheckInGetTicket(p)

SpecSeats == Init /\ [][NextSeats]_vars

\* Requests of the clients reach the rate limiters of the import and of
\* bulk-assign as time passes
NextRateLimit ==
  \/ \E clientId \in ClientIds, endpoint \in RateLimitedEndpoints :
       RateLimitCall(clientId, endpoint)
  \/ Tick

SpecRateLimit == InitMem /\ [][NextRateLimit]_vars

\* The sanitizer called with every field
NextCSV == \E field \in CSVFields : SanitizeCSVFieldCall(field)

SpecCSV == InitMem /\ [][NextCSV]_vars

\* Store methods called directly: on the in-memory store one after another,
\* on the Sheets store with their network calls interleaved, over tickets
\* created before the first call
NextStore ==
  \/ MemCreateTicketRoute(PlainTicketData, TicketCode(Len(tickets) + 1))
  \/ \E id \in TicketIdArgs, u \in TicketUpdates : MemUpdateTicketCall(id, u)
  \/ \E s \in SeatArgs, u \in SeatUpdates : MemUpdateSeatCall(s, u)
  \/ /\ \A p \in Procs : pc[p] = "idle"
     /\ SheetsCreateTicketRoute(PlainTicketData, TicketCode(Len(ticketRows)))
  \/ \E p \in Procs, id \in TicketIdArgs, u \in TicketUpdates :
       SheetsUpdateTicketCall(p, id, u)
  \/ \E p \in Procs, s \in SeatArgs, u \in SeatUpdates : SheetsUpdateSeatCall(p, s, u)
  \/ \E p \in Procs :
       \/ SheetsUpdateSeatGetSeat(p)
       \/ SheetsUpdateSeatGetRows(p)
       \/ SheetsUpdateSeatWrite(p)
       \/ SheetsUpdateTicketGetTicket(p)
       \/ SheetsUpdateTicketGetRows(p)
       \/ SheetsUpdateTicketWrite(p)

SpecStore == Init /\ [][NextStore]_vars

\* The requests that create a ticket, seat it and check it in, one at a time,
\* on the in-memory store
NextDesk ==
  \/ MemCreateTicketRoute(PlainTicketData, TicketCode(Len(tickets) + 1))
  \/ \E id \in TicketIdArgs, s \in SeatArgs : AssignSeatRoute(id, s)
  \/ \E id \in TicketIdArgs : CheckInRoute(id)
  \/ BulkAssignRoute

SpecDesk == InitMem /\ [][NextDesk]_vars

----------------------------------------------------------------------------
(* Properties *)

\* The calls made so far, and those that have returned
ClaimsMade == {p \in Procs : pc[p] # "idle"}
ClaimsReturned == {p \in Procs : pc[p] = "done"}

\* The ticket of call p existed, pending and without a seat, when p was called
PendingAtCall(p) ==
  /\ req[p].ticketAtCall # <<>>
  /\ req[p].ticketAtCall[1].status = StatusPending
  /\ Falsy(req[p].ticketAtCall[1].seatNumber)

\* The seat of call p existed and was free when p was called
FreeAtCall(p) == req[p].seatAtCall # <<>> /\ ~req[p].seatAtCall[1].isOccupied

\* The seat of call p was occupied, by another ticket than p's, when p was called
OccupiedByOtherAtCall(r) ==
  /\ r.kind = "claim"
  /\ r.ticketAtCall # <<>>
  /\ r.seatAtCall # <<>>
  /\ r.seatAtCall[1].isOccupied
  /\ r.seatAtCall[1].ticketId # r.ticketIdForSeat

TicketsOnSeat(s) == {k \in 1..Len(AllTickets) : AllTickets[k].seatNumber = s}

\* Every call made has returned, all were claims of seat s for pairwise
\* distinct tickets that were pending, and s was free when the first was made
RaceOver(s) ==
  /\ Cardinality(ClaimsMade) >= 2
  /\ \A p \in ClaimsMade : pc[p] = "done" /\ req[p].seatNumber = s /\ PendingAtCall(p)
  /\ \A p, q \in ClaimsMade : p # q => req[p].ticketId # req[q].ticketId
  /\ \E p \in ClaimsMade : FreeAtCall(p) /\ \A q \in ClaimsMade : p <= q

\* C1: on the in-memory store, when two or more claims for the same free seat
\* and for distinct pending tickets have all returned, exactly one of them
\* returned success, every other returned the seat-occupied failure, and
\* exactly one ticket references the seat.
C1_ExactlyOneClaimWins ==
  \A s \in VenueSeatNumbers :
    RaceOver(s) =>
      LET winners == {p \in ClaimsMade : res[p].success}
      IN /\ Cardinality(winners) = 1
         /\ \A p \in ClaimsMade \ winners : res[p] = Failure(ErrSeatOccupied)
         /\ Cardinality(TicketsOnSeat(s)) = 1

\* Three claims of one seat, the second and third made while the first was
\* in flight, have all returned
C1_Witness ==
  /\ ClaimsMade = Procs
  /\ \E s \in VenueSeatNumbers : RaceOver(s)
  /\ \A p \in Procs : p > 1 => 1 \in req[p].concurrent

\* C2: on the Sheets store, two claims of the same free seat for two distinct
\* pending tickets never both return success and never leave two tickets
\* with that seat.
C2_SheetsClaimsExclude ==
  \A p, q \in ClaimsReturned :
    (/\ p # q
     /\ req[p].seatNumber = req[q].seatNumber
     /\ req[p].ticketId # req[q].ticketId
     /\ PendingAtCall(p) /\ PendingAtCall(q)
     /\ FreeAtCall(p) /\ FreeAtCall(q))
    => /\ ~(res[p].success /\ res[q].success)
       /\ Cardinality(TicketsOnSeat(req[p].seatNumber)) <= 1

\* The tickets that reference seat s with status assigned or checked-in
HoldersOf(tk, s) ==
  {k \in 1..Len(tk) : tk[k].seatNumber = s /\ tk[k].status \in {StatusAssigned, StatusCheckedIn}}

\* C3: invariant I1 after every completed operation of a sequence run one at a
\* time: a seat is occupied iff its ticketId is non-null iff exactly one
\* ticket references it with status assigned or checked-in.
C3_I1AfterEveryOperation ==
  \A k \in 1..Len(AllSeats) :
    LET seat == AllSeats[k]
    IN /\ seat.isOccupied <=> seat.ticketId # NULL
       /\ seat.isOccupied <=> Cardinality(HoldersOf(AllTickets, seat.seatNumber)) = 1

\* C4: a ticket holds at most one seat: no two distinct seats carry the same
\* ticket code, also when one ticket claims two free seats concurrently.
C4_TicketHoldsAtMostOneSeat ==
  \A j, k \in 1..Len(AllSeats) :
    (j # k /\ AllSeats[j].ticketId # NULL) => AllSeats[j].ticketId # AllSeats[k].ticketId

\* Call p takes a step
Steps(p) == pc'[p] # pc[p]

\* C5: a claim of a seat that was occupied by another ticket when the claim
\* was made changes no ticket and no seat at any of its steps, and returns
\* the seat-occupied failure.
C5_OccupiedSeatClaimChangesNothing ==
  [][\A p \in Procs :
       (Steps(p) /\ OccupiedByOtherAtCall(req'[p]))
       => /\ UNCHANGED <<tickets, seats, ticketRows, seatRows>>
          /\ pc'[p] = "done" => res'[p] = Failure(ErrSeatOccupied)]_vars

\* A claim of a seat another ticket held has returned the seat-occupied
\* failure, on a store where the holder is still the holder
C5_Witness ==
  \E p \in ClaimsReturned :
    /\ OccupiedByOtherAtCall(req[p])
    /\ res[p] = Failure(ErrSeatOccupied)
    /\ SeatOf(req[p].seatNumber) = req[p].seatAtCall
    /\ TicketOf(req[p].ticketId) = req[p].ticketAtCall

\* The two records of a successful claim r, as the store holds them
BothMutationsApplied(r, tk, st) ==
  LET ticket == GetTicketEntry(tk, r.ticketId)
      seat == GetSeatEntry(st, r.seatNumber)
  IN /\ ticket # <<>> /\ seat # <<>>
     /\ seat[1].isOccupied
     /\ seat[1].ticketId = r.ticketIdForSeat
     /\ ticket[1].seatNumber = r.seatNumber
     /\ ticket[1].status = StatusAssigned
     /\ ticket[1].assignedAt # NULL

\* C6: when a claim returns success, the seat is occupied by the ticket's code
\* and the ticket has the seat, status assigned and an assignedAt.
C6_SuccessMeansBothMutations ==
  [][\A p \in Procs :
       (pc[p] # "done" /\ pc'[p] = "done" /\ res'[p].success)
       => BothMutationsApplied(req[p], AllTickets', AllSeats')]_vars

\* The only call made failed at a network call of updateTicket: after the seat
\* was written and before the ticket was
FailedAfterSeatWrite(p) ==
  /\ ClaimsMade = {p}
  /\ pc[p] = "done"
  /\ "failedAt" \in DOMAIN loc[p]
  /\ loc[p].failedAt \in {"updateTicket_getTicket", "updateTicket_getRows", "updateTicket_update"}

\* C7: a claim whose backend call fails after the seat was marked occupied and
\* before the ticket was updated returns the internal error and leaves the
\* seat and the ticket as they were before the claim.
C7_FailedClaimRestoresRecords ==
  \A p \in Procs :
    FailedAfterSeatWrite(p) =>
      /\ res[p] = Failure(ErrInternal)
      /\ SeatOf(req[p].seatNumber) = req[p].seatAtCall
      /\ TicketOf(req[p].ticketId) = req[p].ticketAtCall

\* C8: the lock of a seat is released on every exit of a claim: the table has
\* an entry for a seat only while a claim of that seat is in flight, so a
\* claim finds an entry only if such a claim is in flight.
C8_LockReleasedOnEveryExit ==
  /\ \A s \in SeatArgs :
       HasLock(operationLocks, LockKey(s)) =>
         \E p \in Procs : InFlight(p) /\ req[p].seatNumber = s
  /\ \A p \in ClaimsMade : req[p].blocker # 0 => req[p].blocker \in req[p].concurrent

\* After a failed claim of a seat has returned, a second claim of the same
\* seat found no entry and ran its validation at once
C8_Witness ==
  /\ pc[1] = "done" /\ ~res[1].success
  /\ pc[2] = "awaitOperation"
  /\ req[2].seatNumber = req[1].seatNumber
  /\ req[2].blocker = 0 /\ req[2].concurrent = {}
  /\ operationLocks[LockKey(req[2].seatNumber)] = 2

\* C9: with the microtask queue drained, every call of assignSeatAtomically
\* that is waiting, for the lock or for its operation, eventually returns.
C9_EveryClaimReturns ==
  \A p \in Procs : (pc[p] \in {"awaitLock", "awaitOperation"}) ~> (pc[p] = "done")

\* Three claims of one seat have returned, the third having queued behind the
\* second, which had queued behind the first
C9_Witness ==
  /\ ClaimsReturned = Procs
  /\ \A p \in Procs : req[p].seatNumber = req[1].seatNumber
  /\ req[2].blocker = 1
  /\ req[3].blocker = 2

\* Every call made has returned; they claimed pairwise distinct free seats for
\* pairwise distinct pending tickets
DistinctClaimsOver ==
  /\ \A p \in ClaimsMade : pc[p] = "done" /\ PendingAtCall(p) /\ FreeAtCall(p)
  /\ \A p, q \in ClaimsMade :
       p # q => req[p].seatNumber # req[q].seatNumber /\ req[p].ticketId # req[q].ticketId

\* C10: claims of pairwise distinct free seats for pairwise distinct pending
\* tickets all return success, and a claim waits only for a claim of its
\* own seat.
C10_DistinctSeatsDoNotInterfere ==
  /\ DistinctClaimsOver => \A p \in ClaimsMade : res[p].success
  /\ \A p \in ClaimsMade :
       req[p].blocker # 0 => req[req[p].blocker].seatNumber = req[p].seatNumber

\* Two claims of two seats, the second made while the first was in flight on
\* the in-memory store, have both returned success
C10_Witness ==
  /\ backend = "memory"
  /\ ClaimsMade = {1, 2}
  /\ DistinctClaimsOver
  /\ 1 \in req[2].concurrent
  /\ res[1].success /\ res[2].success

\* The order pending < assigned < checked-in
StatusRank(status) ==
  CASE status = StatusPending -> 0
    [] status = StatusAssigned -> 1
    [] status = StatusCheckedIn -> 2
    [] OTHER -> 0

\* C11: under every interleaving of claims and check-ins, no step moves a
\* ticket's status backwards in the order pending < assigned < checked-in,
\* and no step changes the status or the seatNumber of a checked-in ticket.
C11_StatusNeverRegresses ==
  [][\A k \in 1..Len(AllTickets) :
       /\ StatusRank(AllTickets'[k].status) >= StatusRank(AllTickets[k].status)
       /\ AllTickets[k].status = StatusCheckedIn =>
            /\ AllTickets'[k].status = StatusCheckedIn
            /\ AllTickets'[k].seatNumber = AllTickets[k].seatNumber]_vars

\* The check-in requests made so far that have been answered
CheckInsAnswered == {p \in Procs : pc[p] = "done" /\ req[p].kind = "checkin"}

\* C13: of two check-in requests for the same ticket, both made while the
\* ticket was assigned and the second while the first was in flight, at most
\* one is answered with the checked-in ticket (each such answer follows one
\* write of checkedInAt).
C13_NoDoubleCheckIn ==
  \A p, q \in CheckInsAnswered :
    (/\ p # q
     /\ req[p].ticketId = req[q].ticketId
     /\ p \in req[q].concurrent
     /\ req[p].ticketAtCall # <<>> /\ req[p].ticketAtCall[1].status = StatusAssigned
     /\ req[q].ticketAtCall # <<>> /\ req[q].ticketAtCall[1].status = StatusAssigned)
    => ~(res[p].success /\ res[q].success)

\* Ticket b is ticket a but for its status and checkedInAt
SameButCheckIn(a, b) ==
  /\ DOMAIN a = DOMAIN b
  /\ \A f \in DOMAIN a \ {"status", "checkedInAt"} : a[f] = b[f]

\* C12: a check-in of an unknown id, of a pending ticket or of a checked-in
\* ticket is answered with a message of its own and changes no ticket and
\* no seat; a check-in of an assigned ticket sets its status to checked-in
\* and its checkedInAt, and changes nothing else.
C12_CheckInContract ==
  [][\A id \in TicketIdArgs :
       CheckInRoute(id) =>
         LET ticket == GetTicketEntry(tickets, id)
         IN /\ seats' = seats
            /\ ticket = <<>> =>
                 tickets' = tickets /\ last'.status = 404 /\ last'.message = ErrTicketNotFound
            /\ (ticket # <<>> /\ ticket[1].status = StatusPending) =>
                 tickets' = tickets /\ last'.status = 400 /\ last'.message = ErrNotAssigned
            /\ (ticket # <<>> /\ ticket[1].status = StatusCheckedIn) =>
                 tickets' = tickets /\ last'.status = 400
                 /\ last'.message = ErrAlreadyCheckedIn
            /\ (ticket # <<>> /\ ticket[1].status = StatusAssigned) =>
                 /\ last'.status = 200
                 /\ Len(tickets') = Len(tickets)
                 /\ \A k \in 1..Len(tickets) :
                      IF tickets[k].id = id
                      THEN /\ SameButCheckIn(tickets[k], tickets'[k])
                           /\ tickets'[k].status = StatusCheckedIn
                           /\ tickets'[k].checkedInAt # NULL
                           /\ last'.data = <<tickets'[k]>>
                      ELSE tickets'[k] = tickets[k]
            /\ Cardinality({ErrTicketNotFound, ErrNotAssigned, ErrAlreadyCheckedIn}) = 3]_vars

\* A ticket that a claim had seated has been checked in: the reply carries
\* it, checked-in, with its seat and its assignedAt
C12_Witness ==
  /\ last.route = "checkin" /\ last.status = 200
  /\ last.data[1].status = StatusCheckedIn
  /\ last.data[1].checkedInAt # NULL
  /\ last.data[1].assignedAt # NULL
  /\ last.data[1].seatNumber \in VenueSeatNumbers
  /\ GetSeatEntry(seats, last.data[1].seatNumber)[1].ticketId = last.data[1].ticketId

\* Record r passes the import's checks of guestName and email
ValidGuest(r) ==
  /\ ~Falsy(r.guestName) /\ Len(Trim(r.guestName)) > 0
  /\ ~Falsy(r.email) /\ EmailPattern(Trim(r.email))

\* Record r is valid and requests seat s
RequestsSeat(r, s) ==
  ValidGuest(r) /\ ~Falsy(r.seatNumber) /\ ToUpperCase(Trim(r.seatNumber)) = s

\* The records of a batch that request a seat of the venue which is occupied
\* when they are processed: it was occupied before the import, or an earlier
\* record of the batch requests it too
Conflicting(records, st) ==
  {k \in 1..Len(records) :
     \E s \in VenueSeatNumbers :
       /\ RequestsSeat(records[k], s)
       /\ \/ GetSeatEntry(st, s)[1].isOccupied
          \/ \E j \in 1..(k - 1) : RequestsSeat(records[j], s)}

\* C14: an import rejects every record whose seat is occupied when the record
\* is processed, a seat taken by an earlier record of the batch included: the
\* report has one seat-occupied entry for each such record, no ticket is
\* created for it, and a seat occupied before the import keeps its holder.
\* Two records for A-01 give one ticket, one error entry and seatsAssigned 1.
C14_ImportSeatConflict ==
  [][\A records \in ImportArgs :
       \A ticketIds \in [1..Len(records) -> TicketCodes] :
         (ImportRoute(records, ticketIds) /\ last'.status = 200) =>
           LET report == last'.data[1]
               occupied == {e \in 1..Len(report.errors) :
                              report.errors[e].error = ErrSeatOccupied}
           IN /\ Cardinality(occupied) = Cardinality(Conflicting(records, seats))
              /\ Len(tickets') - Len(tickets) = Len(records) - Len(report.errors)
              /\ report.seatsAssigned =
                   Cardinality({s \in VenueSeatNumbers :
                                  /\ ~GetSeatEntry(seats, s)[1].isOccupied
                                  /\ \E k \in 1..Len(records) : RequestsSeat(records[k], s)})
              /\ \A s \in VenueSeatNumbers :
                   GetSeatEntry(seats, s)[1].isOccupied =>
                     GetSeatEntry(seats', s) = GetSeatEntry(seats, s)]_vars

\* The entries of a report that carry row number row
EntriesOfRow(errors, row) == {e \in 1..Len(errors) : errors[e].row = row}

\* Record k of the batch is the only one that is not valid, for its email,
\* and no record names a seat
OnlyInvalidEmail(records, k) ==
  /\ ~Falsy(records[k].guestName) /\ Len(Trim(records[k].guestName)) > 0
  /\ ~ValidGuest(records[k])
  /\ \A j \in 1..Len(records) :
       /\ j # k => ValidGuest(records[j])
       /\ Falsy(records[j].seatNumber)

\* The numbering of error entries: the entry of the k-th record (k from 1)
\* carries row k + offset and the record as data; a record that is imported
\* has no entry; a batch whose k-th record alone is invalid, for its email,
\* has imported = n - 1 and one entry, with row k + offset
RowNumbering(records, report, offset) ==
  /\ \A e \in 1..Len(report.errors) :
       /\ report.errors[e].row - offset \in 1..Len(records)
       /\ report.errors[e].data = records[report.errors[e].row - offset]
  /\ \A k \in 1..Len(records) :
       /\ ~ValidGuest(records[k]) =>
            Cardinality(EntriesOfRow(report.errors, k + offset)) = 1
       /\ (ValidGuest(records[k]) /\ Falsy(records[k].seatNumber)) =>
            EntriesOfRow(report.errors, k + offset) = {}
       /\ OnlyInvalidEmail(records, k) =>
            /\ report.imported = Len(records) - 1
            /\ Len(report.errors) = 1
            /\ report.errors[1].row = k + offset
            /\ report.errors[1].error = "Missing or invalid email address"

\* The import of call p has been answered with its report
ImportReported(p) ==
  /\ req[p].kind = "import"
  /\ pc[p] = "done"
  /\ last.route = "import" /\ last.status = 200

\* C16 (as stated): the error entry of the k-th data record carries
\* row = k + 2 and the original record as data.
C16_ErrorRowIsKPlusTwo ==
  \A p \in Procs : ImportReported(p) => RowNumbering(req[p].records, last.data[1], 2)

\* C16 (amended): the error entry of the k-th data record (k counted from 1)
\* carries row = k + 1, the line of the record in a file whose first line is
\* the header, and the original record as data.
C16_ErrorRowIsKPlusOne ==
  \A p \in Procs : ImportReported(p) => RowNumbering(req[p].records, last.data[1], 1)

\* An import of two records, the second with an invalid email, has reported
\* one ticket imported and one error entry, for row 3, with the record
C16_Witness ==
  /\ \E p \in Procs : ImportReported(p) /\ Len(req[p].records) = 2
  /\ last.data[1].imported = 1
  /\ Len(last.data[1].errors) = 1
  /\ last.data[1].errors[1].row = 3
  /\ last.data[1].errors[1].error = "Missing or invalid email address"
  /\ ~EmailPattern(last.data[1].errors[1].data.email)

\* The import of call p has entered its loop and has been answered
ImportAnswered(p) ==
  /\ req[p].kind = "import"
  /\ pc[p] = "done"
  /\ last.route = "import"
  /\ "errors" \in DOMAIN loc[p]

\* The tickets of the store that carry the code generated for record k of
\* the import of call p
TicketsOfRecord(p, k) ==
  {j \in 1..Len(AllTickets) : AllTickets[j].ticketId = req[p].ticketIds[k]}

\* C15: an import of a non-empty batch with the required columns processes
\* every record, whatever failed before it, and answers with the full
\* report; each record has exactly one outcome, a ticket created and counted
\* in imported or an error entry, so imported + errors.length is the number
\* of records.
C15_ImportRowIsolation ==
  \A p \in Procs :
    ImportAnswered(p) =>
      LET records == req[p].records
          report == last.data[1]
      IN /\ last.status = 200
         /\ loc[p].i = Len(records)
         /\ report.imported + Len(report.errors) = Len(records)
         /\ \A k \in 1..Len(records) :
              \/ /\ Cardinality(EntriesOfRow(report.errors, k + 1)) = 1
                 /\ TicketsOfRecord(p, k) = {}
              \/ /\ EntriesOfRow(report.errors, k + 1) = {}
                 /\ Cardinality(TicketsOfRecord(p, k)) = 1
         /\ report.imported =
              Cardinality({k \in 1..Len(records) : TicketsOfRecord(p, k) # {}})

\* Record k of the import of call p names a seat of the venue that was free
\* when the import was requested and that no earlier record names
TakesFreeSeat(p, k, s) ==
  /\ RequestsSeat(req[p].records[k], s)
  /\ ~GetSeatEntry(req[p].seatsAtCall, s)[1].isOccupied
  /\ \A j \in 1..(k - 1) : ~RequestsSeat(req[p].records[j], s)

\* C17: an imported record with a valid, existing, free seat gives a ticket
\* with that seatNumber, status assigned and an assignedAt, and the seat is
\* occupied with the ticket's code; a record without a seat gives a pending
\* ticket with null seatNumber; and in every state between store operations
\* a ticket with status assigned has an assignedAt.
C17_ImportedTicketIsAssigned ==
  /\ \A j \in 1..Len(AllTickets) :
       AllTickets[j].status = StatusAssigned => AllTickets[j].assignedAt # NULL
  /\ \A p \in Procs :
       ImportReported(p) =>
         \A k \in 1..Len(req[p].records) :
           /\ \A s \in VenueSeatNumbers :
                TakesFreeSeat(p, k, s) =>
                  /\ Cardinality(TicketsOfRecord(p, k)) = 1
                  /\ \A j \in TicketsOfRecord(p, k) :
                       /\ AllTickets[j].seatNumber = s
                       /\ AllTickets[j].status = StatusAssigned
                       /\ AllTickets[j].assignedAt # NULL
                       /\ SeatOf(s)[1].isOccupied
                       /\ SeatOf(s)[1].ticketId = AllTickets[j].ticketId
           /\ (ValidGuest(req[p].records[k]) /\ ~HasSeatRequest(req[p].records[k])) =>
                /\ Cardinality(TicketsOfRecord(p, k)) = 1
                /\ \A j \in TicketsOfRecord(p, k) :
                     /\ AllTickets[j].seatNumber = NULL
                     /\ AllTickets[j].status = StatusPending

\* C18: createTicket refuses a ticketId that a stored ticket carries, so in
\* every reachable state the ticketId values of the tickets are pairwise
\* distinct, whether the tickets come from POST /api/tickets or from an
\* import, with the codes the generator returns.
C18_TicketIdsAreUnique ==
  \A j, k \in 1..Len(AllTickets) :
    j # k => AllTickets[j].ticketId # AllTickets[k].ticketId

\* C19: invariant I2: every ticket whose seatNumber is non-null names a seat
\* that exists and is occupied, tickets created by POST /api/tickets with a
\* seatNumber and a status in the body included.
C19_I2SeatOfTicketIsOccupied ==
  \A k \in 1..Len(AllTickets) :
    AllTickets[k].seatNumber # NULL =>
      /\ SeatOf(AllTickets[k].seatNumber) # <<>>
      /\ SeatOf(AllTickets[k].seatNumber)[1].isOccupied

\* POST /api/tickets with body d and code c has created a ticket
CreatesTicket(d, c) ==
  /\ CreateTicketValidation(d) = ""
  /\ MemCreateTicketRoute(d, c) \/ SheetsCreateTicketRoute(d, c)

\* C20: createTicket gives the ticket an id that no existing ticket has, the
\* status pending when the draft has none and the seatNumber null when the
\* draft has none, assignedAt and checkedInAt null, and leaves every
\* existing ticket and every seat as they were.
C20_CreateTicketContract ==
  [][\A d \in TicketDataArgs, c \in {TicketCode(n) : n \in 1..MaxTickets} :
       CreatesTicket(d, c) =>
         /\ Len(AllTickets') = Len(AllTickets) + 1
         /\ LET ticket == AllTickets'[Len(AllTickets')]
            IN /\ \A k \in 1..Len(AllTickets) : AllTickets[k].id # ticket.id
               /\ ticket.ticketId = c
               /\ ticket.status = IF Falsy(d.status) THEN StatusPending ELSE d.status
               /\ ticket.seatNumber = IF Falsy(d.seatNumber) THEN NULL ELSE d.seatNumber
               /\ ticket.assignedAt = NULL
               /\ ticket.checkedInAt = NULL
               /\ last'.data = <<ticket>>
         /\ \A k \in 1..Len(AllTickets) : AllTickets'[k] = AllTickets[k]
         /\ AllSeats' = AllSeats]_vars

\* A ticket has been created from a body without status and seat, pending
\* and unseated, on a store that holds a seated ticket
C20_Witness ==
  /\ last.route = "createTicket" /\ last.status = 200
  /\ last.data[1].status = StatusPending
  /\ last.data[1].seatNumber = NULL
  /\ last.data[1].assignedAt = NULL /\ last.data[1].checkedInAt = NULL
  /\ TicketOf(last.data[1].id) = last.data
  /\ \E k \in 1..Len(AllTickets) :
       /\ AllTickets[k].assignedAt # NULL
       /\ SeatOf(AllTickets[k].seatNumber) # <<>>

----------------------------------------------------------------------------
\* b is a with the fields of updates set and every other field kept
MergedOver(a, b, updates) ==
  /\ DOMAIN b = DOMAIN a
  /\ \A f \in DOMAIN a : b[f] = IF f \in DOMAIN updates THEN updates[f] ELSE a[f]

\* Sequence b is sequence a but for the entry at the indices in K, which is
\* merged with updates
OnlyMerged(a, b, K, updates) ==
  /\ Len(b) = Len(a)
  /\ \A k \in 1..Len(a) :
       IF k \in K THEN MergedOver(a[k], b[k], updates) ELSE b[k] = a[k]

\* Call p of updateTicket or updateSeat on the Sheets store takes a step
DirectUpdateStep(p) ==
  /\ req[p].kind \in {"updateTicket", "updateSeat"}
  /\ pc[p] # pc'[p]

\* The record p updates is as it was when p was called
UntouchedSinceCall(p) ==
  req[p].recordAtCall =
    IF req[p].kind = "updateSeat" THEN SeatOf(req[p].seatNumber) ELSE TicketOf(req[p].ticketId)

\* C21: updateTicket and updateSeat merge only the supplied fields over the
\* existing record.  On the in-memory store every call replaces the record of
\* its key by the record with the supplied fields set and the others kept,
\* leaves every other ticket and seat as it was, and with an unknown key
\* throws the not-found error and changes nothing.  On the Sheets store the
\* same holds of the call's write for a record no other call wrote since the
\* call was made; the write touches no other row, the steps before it touch
\* no row, and an unknown key ends the call at its first read with the
\* not-found error.
C21_UpdateMergesSuppliedFields ==
  [][/\ \A id \in TicketIdArgs, u \in TicketUpdates :
         MemUpdateTicketCall(id, u) =>
           /\ seats' = seats
           /\ IF TicketIndex(tickets, id) # {}
              THEN /\ OnlyMerged(tickets, tickets', TicketIndex(tickets, id), u)
                   /\ last'.message = ""
              ELSE /\ tickets' = tickets
                   /\ last'.message = ErrTicketNotFound
     /\ \A s \in SeatArgs, u \in SeatUpdates :
         MemUpdateSeatCall(s, u) =>
           /\ tickets' = tickets
           /\ IF SeatIndex(seats, s) # {}
              THEN /\ OnlyMerged(seats, seats', SeatIndex(seats, s), u)
                   /\ last'.message = ""
              ELSE /\ seats' = seats
                   /\ last'.message = ErrSeatNotFound
     /\ \A p \in Procs :
         DirectUpdateStep(p) =>
           LET seatsNow == SheetsGetAllSeats(seatRows)
               seatsNext == SheetsGetAllSeats(seatRows')
               ticketsNow == SheetsGetAllTickets(ticketRows)
               ticketsNext == SheetsGetAllTickets(ticketRows')
           IN CASE pc[p] = "updateSeat_update" ->
                     /\ ticketRows' = ticketRows
                     /\ Len(seatRows') = Len(seatRows)
                     /\ \A k \in 1..Len(seatsNow) :
                          seatsNow[k].seatNumber # req[p].seatNumber
                            => seatRows'[k + 1] = seatRows[k + 1]
                     /\ UntouchedSinceCall(p) =>
                          OnlyMerged(seatsNow, seatsNext,
                                     SeatIndex(seatsNow, req[p].seatNumber), req[p].updates)
                     /\ res'[p].success
                [] pc[p] = "updateTicket_update" ->
                     /\ seatRows' = seatRows
                     /\ Len(ticketRows') = Len(ticketRows)
                     /\ \A k \in 1..Len(ticketsNow) :
                          ticketsNow[k].id # req[p].ticketId
                            => ticketRows'[k + 1] = ticketRows[k + 1]
                     /\ UntouchedSinceCall(p) =>
                          OnlyMerged(ticketsNow, ticketsNext,
                                     TicketIndex(ticketsNow, req[p].ticketId), req[p].updates)
                     /\ res'[p].success
                [] pc[p] = "updateSeat_getSeat" ->
                     /\ UNCHANGED <<ticketRows, seatRows>>
                     /\ (SeatIndex(seatsNow, req[p].seatNumber) = {})
                          <=> (pc'[p] = "done" /\ res'[p] = Failure(ErrSeatNotFound))
                [] pc[p] = "updateTicket_getTicket" ->
                     /\ UNCHANGED <<ticketRows, seatRows>>
                     /\ (TicketIndex(ticketsNow, req[p].ticketId) = {})
                          <=> (pc'[p] = "done" /\ res'[p] = Failure(ErrTicketNotFound))
                [] OTHER -> UNCHANGED <<ticketRows, seatRows>>]_vars

\* A call of updateSeat on the Sheets store that supplied ticketId alone has
\* returned, and the seat is still occupied as an earlier call left it
C21_Witness ==
  \E p \in Procs :
    /\ req[p].kind = "updateSeat"
    /\ pc[p] = "done"
    /\ res[p].success
    /\ req[p].updates = [ticketId |-> TicketCode(2)]
    /\ SeatOf(req[p].seatNumber) # <<>>
    /\ SeatOf(req[p].seatNumber)[1].isOccupied
    /\ SeatOf(req[p].seatNumber)[1].ticketId = TicketCode(2)

----------------------------------------------------------------------------
\* Call p of generateSeats has returned
Generated(p) == req[p].kind = "generateSeats" /\ pc[p] = "done"

\* The validator named by route has answered
Validated(route) == last.route = route /\ last.data # <<>>

C23_ValidatorMatchesGenerator ==
  (Generated(1) /\ Validated("isValidSeatNumber"))
    => (last.data[1].valid <=> last.data[1].seatNumber \in SeatNumbersOf(loc[1].seats))

\* C24: validateSeatNumber accepts exactly the 200 strings <row>-<index> with
\* row in A..J and index in 01..20, the seat numbers of the default layout.
C24_ValidateSeatNumberAcceptsTheLayout ==
  Validated("validateSeatNumber")
    => (last.data[1].valid
          <=> last.data[1].seatNumber \in SeatNumbersOf(generateSeats(defaultVenueConfig)))

----------------------------------------------------------------------------
\* The pending tickets listed up to position k, and the unoccupied seats
\* listed up to position k (the store lists the seats of the venue's one row
\* in ascending seat number)
PendingUpTo(tk, k) == {j \in 1..k : tk[j].status = StatusPending}
FreeUpTo(st, k) == {j \in 1..k : ~st[j].isOccupied}

----------------------------------------------------------------------------
\* Claim p runs its validate-then-mutate section in this step
RunsSection(p) == pc[p] # "awaitOperation" /\ pc'[p] = "awaitOperation"

\* C26: per-seat mutual exclusion covers the whole validate-then-mutate
\* section for any number of claimers.  A claim fetches, checks and writes in
\* one step in which no other claim moves, also when several claims waited
\* on the same claim in flight and are released together: what it checks is
\* the store as it is when it writes, it writes only when the seat is then
\* unoccupied and the ticket then without a seat, and the seats change in no
\* other step.
C26_SectionIsExclusive ==
  [][/\ \A p \in Procs :
          RunsSection(p) =>
            LET ticket == GetTicketEntry(tickets, req'[p].ticketId)
                seat == GetSeatEntry(seats, req'[p].seatNumber)
                free == /\ ticket # <<>>
                        /\ seat # <<>>
                        /\ ~seat[1].isOccupied
                        /\ Falsy(ticket[1].seatNumber)
            IN /\ \A q \in Procs \ {p} : pc'[q] = pc[q]
               /\ loc'[p].result.success <=> free
               /\ ~free => UNCHANGED <<tickets, seats>>
               /\ free =>
                    /\ GetSeatEntry(seats', req'[p].seatNumber)[1].isOccupied
                    /\ GetSeatEntry(seats', req'[p].seatNumber)[1].ticketId
                         = req'[p].ticketIdForSeat
                    /\ GetTicketEntry(tickets', req'[p].ticketId)[1].seatNumber
                         = req'[p].seatNumber
                    /\ \A k \in 1..Len(seats) :
                         seats[k].seatNumber # req'[p].seatNumber => seats'[k] = seats[k]
                    /\ \A k \in 1..Len(tickets) :
                         tickets[k].id # req'[p].ticketId => tickets'[k] = tickets[k]
     /\ seats' # seats => \E p \in Procs : RunsSection(p)]_vars

\* Two claims waited on the same claim for the seat, which failed and left
\* the seat free; released together, one took the seat and the other was
\* told that the seat is occupied
C26_Witness ==
  \E p, q, r \in Procs :
    /\ q # r
    /\ pc[p] = "done" /\ pc[q] = "done" /\ pc[r] = "done"
    /\ req[q].blocker = p /\ req[r].blocker = p
    /\ req[q].seatNumber = req[p].seatNumber /\ req[r].seatNumber = req[p].seatNumber
    /\ ~res[p].success
    /\ res[q].success
    /\ res[r] = Failure(ErrSeatOccupied)

----------------------------------------------------------------------------
\* C27: a claim checks, in this order, that the ticket exists, that the seat
\* exists, that the seat is not occupied and that the ticket has no seat, and
\* returns success=false with the reason of the first check that fails (one
\* of four strings), never a thrown fault; on either store the reason is
\* the same function of the ticket and the seat the store holds.
C27_FirstFailedCheckIsReported ==
  \A p \in Procs :
    (req[p].kind = "claim" /\ pc[p] = "done") =>
      LET ticket == req[p].ticketAtCall
          seat == req[p].seatAtCall
      IN /\ ticket = <<>> => res[p] = Failure("Ticket not found")
         /\ (ticket # <<>> /\ seat = <<>>) => res[p] = Failure("Seat not found")
         /\ (ticket # <<>> /\ seat # <<>> /\ seat[1].isOccupied)
              => res[p] = Failure("Seat is already occupied")
         /\ (ticket # <<>> /\ seat # <<>> /\ ~seat[1].isOccupied
               /\ ticket[1].seatNumber # NULL)
              => res[p] = Failure("Ticket already has a seat assigned")
         /\ (ticket # <<>> /\ seat # <<>> /\ ~seat[1].isOccupied
               /\ ticket[1].seatNumber = NULL)
              => res[p].success

\* On the Sheets store a ticket that has a seat claimed an occupied seat and
\* was told that the seat is occupied
C27_Witness ==
  /\ backend = "google-sheets"
  /\ \E p \in Procs :
       /\ pc[p] = "done" /\ req[p].kind = "claim"
       /\ req[p].ticketAtCall # <<>> /\ req[p].seatAtCall # <<>>
       /\ req[p].ticketAtCall[1].seatNumber # NULL
       /\ req[p].seatAtCall[1].isOccupied
       /\ res[p] = Failure(ErrSeatOccupied)

----------------------------------------------------------------------------
\* The records of import q handled so far that asked for a seat the seats
\* read before the loop showed free
ImportedOnFreeSeat(q) ==
  {k \in 1..loc[q].i :
     /\ HasSeatRequest(req[q].records[k])
     /\ GetSeatEntry(loc[q].seatMap, RequestedSeat(req[q].records[k])) # <<>>
     /\ ~GetSeatEntry(loc[q].seatMap, RequestedSeat(req[q].records[k]))[1].isOccupied}

\* Import q is in its loop or has answered from it
ImportInLoop(q) ==
  /\ req[q].kind = "import"
  /\ pc[q] \in {"import_generateQRCode", "done"}
  /\ "i" \in DOMAIN loc[q]

\* Claim p has returned success
ClaimSucceeded(p) == req[p].kind = "claim" /\ pc[p] = "done" /\ res[p].success

\* C28: the bulk import takes no per-seat lock and does not look at the seat
\* again: there is an interleaving with a single claim of the same free seat
\* in which both write it.  Whenever a claim has succeeded on a seat that
\* the import read as free and the import has handled a record asking for
\* that seat, the store holds two tickets whose seatNumber is that seat, the
\* record's and the claim's.
C28_ImportAndClaimBothTakeTheSeat ==
  \A q \in Procs :
    ImportInLoop(q) =>
      \A k \in ImportedOnFreeSeat(q) : \A p \in Procs :
        (ClaimSucceeded(p) /\ req[p].seatNumber = RequestedSeat(req[q].records[k])) =>
          \E a, b \in TicketsOnSeat(req[p].seatNumber) :
            /\ a # b
            /\ AllTickets[a].ticketId = req[q].ticketIds[k]
            /\ AllTickets[b].id = req[p].ticketId

\* An import of one record has answered imported 1 without an error, a claim
\* made while the import was in flight has succeeded on the record's seat,
\* and two tickets have that seat
C28_Witness ==
  \E q, p \in Procs :
    /\ ImportInLoop(q) /\ pc[q] = "done"
    /\ ImportedOnFreeSeat(q) # {}
    /\ last.route = "import" /\ last.status = 200
    /\ last.data[1].imported = Len(req[q].records)
    /\ last.data[1].errors = <<>>
    /\ ClaimSucceeded(p)
    /\ q \in req[p].concurrent
    /\ req[p].seatAtCall # <<>> /\ ~req[p].seatAtCall[1].isOccupied
    /\ Cardinality(TicketsOnSeat(req[p].seatNumber)) = 2
    /\ \E k \in ImportedOnFreeSeat(q) :
         RequestedSeat(req[q].records[k]) = req[p].seatNumber

----------------------------------------------------------------------------
\* The records of the import of call p whose ticket the store holds with a
\* seat number
SeatedRecords(p) ==
  {k \in 1..Len(req[p].records) :
     \E j \in TicketsOfRecord(p, k) : AllTickets[j].seatNumber # NULL}

\* C29: in every import report seatsAssigned is the number of tickets this
\* import created with a seat number, hence seatsAssigned <= imported, also
\* when createTicket or the later updateTicket fails for a record that asked
\* for a seat.
C29_SeatsAssignedCountsSeatedTickets ==
  \A p \in Procs :
    (ImportAnswered(p) /\ last.status = 200) =>
      /\ last.data[1].seatsAssigned = Cardinality(SeatedRecords(p))
      /\ last.data[1].seatsAssigned <= last.data[1].imported

----------------------------------------------------------------------------
\* The seats of the store that carry the code generated for record k of the
\* import of call p
SeatsOfRecord(p, k) ==
  {j \in 1..Len(AllSeats) : AllSeats[j].ticketId = req[p].ticketIds[k]}

\* C30: an import record that ends as an error entry leaves the store
\* unchanged: no ticket exists for it and no seat is marked occupied for it,
\* whether it was rejected by a check or a store call failed after the seat
\* was marked or after the ticket was created.
C30_ErrorRecordLeavesNoTrace ==
  \A p \in Procs :
    (ImportAnswered(p) /\ last.status = 200) =>
      \A k \in 1..Len(req[p].records) :
        EntriesOfRow(last.data[1].errors, k + 1) # {} =>
          /\ TicketsOfRecord(p, k) = {}
          /\ SeatsOfRecord(p, k) = {}

----------------------------------------------------------------------------
\* C31: for the active venue configuration (default, small or large) every
\* seat number the store is seeded with, the numbers generateSeats returns
\* for that configuration, passes the format check of the assign-seat route
\* and of the import, so every free seat can be claimed or pre-assigned.
C31_SeededSeatsPassTheRouteCheck ==
  \A p \in Procs :
    Generated(p) =>
      \A k \in 1..Len(loc[p].seats) : SeatNumberPattern(loc[p].seats[k].seatNumber)

----------------------------------------------------------------------------
\* The store was constructed for config and its initialization has completed
Initialized(config) ==
  req[1].kind = "constructor" /\ req[1].config = config /\ pc[1] = "done"

\* C32: both stores seed the same seats.  For a venue configuration, once
\* initialization has completed and before any claim, the in-memory store
\* and the Sheets store (whose seats area was empty) hold exactly the seat
\* numbers generateSeats produces for that configuration, each unoccupied
\* and without ticketId.
C32_BothStoresSeedTheLayout ==
  \A config \in VenueConfigs :
    (Initialized(config) /\ pc[2] = "idle") =>
      /\ Len(AllSeats) = Len(generateSeats(config))
      /\ SeatNumbersOf(AllSeats) = SeatNumbersOf(generateSeats(config))
      /\ \A k \in 1..Len(AllSeats) :
           ~AllSeats[k].isOccupied /\ AllSeats[k].ticketId = NULL

\* C35: seeding precedes service.  On the Sheets store, here constructed
\* for the default configuration, whose seats the seed holds, no client
\* operation observes the store before the sheets were created and the
\* seats seeded: getSeat of a seat number the generator produces returns
\* the seat, and no claim of such a seat fails with "Seat not found".
C35_SeedingPrecedesService ==
  (backend = "google-sheets" /\ req[1].kind = "constructor"
     /\ req[1].config = defaultVenueConfig) =>
    /\ (last.route = "getSeat"
          /\ last.data[1].seatNumber \in SeatNumbersOf(generateSeats(defaultVenueConfig)))
         => last.data[1].found # <<>>
    /\ (req[2].kind = "claim" /\ pc[2] = "done"
          /\ req[2].seatNumber \in SeatNumbersOf(generateSeats(defaultVenueConfig)))
         => res[2].error # "Seat not found"

----------------------------------------------------------------------------
\* C33: after initialization no claim, check-in, import or bulk-assign
\* creates or deletes a seat; a seat's seatNumber, row and seatIndex never
\* change; a seat that has become occupied never becomes unoccupied again.
C33_SeatsAreFixed ==
  [][/\ Len(AllSeats') = Len(AllSeats)
     /\ \A k \in 1..Len(AllSeats) :
          /\ AllSeats'[k].seatNumber = AllSeats[k].seatNumber
          /\ AllSeats'[k].row = AllSeats[k].row
          /\ AllSeats'[k].seatIndex = AllSeats[k].seatIndex
          /\ AllSeats[k].isOccupied => AllSeats'[k].isOccupied]_vars

\* Bulk-assign has filled the venue after a claim and a check-in: every seat
\* is occupied and carries the number it was seeded with
C33_Witness ==
  /\ last.route = "bulkAssign" /\ last.status = 200
  /\ last.data # <<>> /\ last.data[1].assigned >= 1
  /\ \E k \in 1..Len(AllTickets) : AllTickets[k].status = StatusCheckedIn
  /\ Len(AllSeats) = Len(initializeSeats)
  /\ \A k \in 1..Len(AllSeats) :
       AllSeats[k].isOccupied /\ AllSeats[k].seatNumber = initializeSeats[k].seatNumber

----------------------------------------------------------------------------
\* Call p of updateSeat on the Sheets store has returned its seat
SeatUpdated(p) ==
  /\ backend = "google-sheets"
  /\ req[p].kind = "updateSeat"
  /\ pc[p] = "done"
  /\ res[p].success

----------------------------------------------------------------------------
\* The requests before the k-th that the limiter passed on for the same
\* client at the same endpoint no longer than the endpoint's windowMs before
\* the k-th
AdmittedInWindow(k) ==
  {j \in 1..(k - 1) :
     /\ rateLimited[j].next
     /\ rateLimited[j].clientId = rateLimited[k].clientId
     /\ rateLimited[j].endpoint = rateLimited[k].endpoint
     /\ rateLimited[j].at + rateLimited[k].endpoint.windowMs >= rateLimited[k].at}

\* C36: rate limits are per endpoint.  A client is rejected with 429 at an
\* endpoint only if maxRequests of its requests were already admitted to
\* that same endpoint in the endpoint's current window, whatever the client
\* asked of other endpoints.
C36_RateLimitIsPerEndpoint ==
  \A k \in 1..Len(rateLimited) :
    ~rateLimited[k].next =>
      Cardinality(AdmittedInWindow(k)) >= rateLimited[k].endpoint.maxRequests

----------------------------------------------------------------------------
\* getStats of both stores: the four counts of the dashboard, computed from
\* the tickets and the seats the store holds
getStats(allTickets, allSeats) ==
  [totalTickets |-> Len(allTickets),
   assignedSeats |-> Cardinality({k \in 1..Len(allSeats) : allSeats[k].isOccupied}),
   scannedCodes |->
     Cardinality({k \in 1..Len(allTickets) : allTickets[k].status # StatusPending}),
   checkedIn |->
     Cardinality({k \in 1..Len(allTickets) : allTickets[k].status = StatusCheckedIn})]

\* GET /api/stats
StatsRoute ==
  /\ Quiescent
  /\ last' = Response("stats", 200, <<>>, <<getStats(AllTickets, AllSeats)>>)
  /\ UNCHANGED <<limiter, backend, tickets, seats, operationLocks, ticketRows, seatRows, pc,
                 req, loc, res, runq>>

\* The routes that change tickets and seats, and the dashboard reading the
\* statistics between them
NextStats ==
  \/ NextSeats
  \/ StatsRoute

SpecStats == Init /\ [][NextStats]_vars

\* C37: once every operation has completed the dashboard statistics are
\* consistent: checkedIn <= scannedCodes <= totalTickets, and the number of
\* occupied seats equals the number of tickets that are not pending.
C37_StatsAreConsistent ==
  Quiescent =>
    LET stats == getStats(AllTickets, AllSeats)
    IN /\ stats.checkedIn <= stats.scannedCodes
       /\ stats.scannedCodes <= stats.totalTickets
       /\ stats.assignedSeats = stats.scannedCodes

----------------------------------------------------------------------------
\* The tickets the Sheets store holds or is about to write: those its rows
\* decode to, the updatedTicket of every updateTicket in flight, and the
\* ticket createTicket has just appended
SheetsTicketsHeld ==
  {AllTickets[k] : k \in 1..Len(AllTickets)}
    \cup {loc[p].updatedTicket : p \in {q \in Procs : "updatedTicket" \in DOMAIN loc[q]}}
    \cup (IF last.route = "createTicket" /\ last.data # <<>> THEN {last.data[1]} ELSE {})

\* The seats the Sheets store holds or is about to write
SheetsSeatsHeld ==
  {AllSeats[k] : k \in 1..Len(AllSeats)}
    \cup {loc[p].updatedSeat : p \in {q \in Procs : "updatedSeat" \in DOMAIN loc[q]}}

\* C38: the row encoding of the Sheets store round-trips.  Every ticket t
\* and seat s the store holds or writes is read back as written:
\* rowToTicket(ticketToRow(t)) = t and rowToSeat(seatToRow(s)) = s, null
\* seat number, null ticket id, null timestamps and both values of
\* isOccupied included.
C38_RowEncodingRoundTrips ==
  backend = "google-sheets" =>
    /\ \A t \in SheetsTicketsHeld : rowToTicket(ticketToRow(t)) = t
    /\ \A s \in SheetsSeatsHeld : rowToSeat(seatToRow(s)) = s

\* An occupied seat without a ticket id and a free seat were written and read
\* back, and so was a ticket with a timestamp, a null timestamp and no seat
C38_Witness ==
  /\ backend = "google-sheets"
  /\ \E p \in Procs : pc[p] = "done" /\ req[p].kind = "updateSeat" /\ res[p].success
  /\ \E p \in Procs : pc[p] = "done" /\ req[p].kind = "updateTicket" /\ res[p].success
  /\ \E k \in 1..Len(AllSeats) : AllSeats[k].isOccupied /\ AllSeats[k].ticketId = NULL
  /\ \E k \in 1..Len(AllSeats) : ~AllSeats[k].isOccupied
  /\ \E k \in 1..Len(AllTickets) :
       /\ AllTickets[k].seatNumber = NULL
       /\ AllTickets[k].assignedAt # NULL
       /\ AllTickets[k].checkedInAt = NULL

----------------------------------------------------------------------------
\* C39: sanitizeCSVField removes the CSV-injection characters.  For every
\* field the result does not begin with '=', '+', '-' or '@', and a field
\* that begins with none of them is returned trimmed and otherwise unchanged.
C39_SanitizedFieldHasNoInjectionPrefix ==
  last.route = "sanitizeCSVField" =>
    LET field == last.data[1].field
        result == last.data[1].result
    IN /\ result = <<>> \/ result[1] \notin CSVInjectionChars
       /\ (field = <<>> \/ field[1] \notin CSVInjectionChars) => result = Trim(field)

====
